---- MODULE Spec2Model ----
(***************************************************************************)
(* Playback clock, interval resolution and dwell accumulation of the       *)
(* people-watching visualisation.                                          *)
(*                                                                         *)
(*   store   src/src/lib/usePeoplePlaybackStore.ts (lines 1-566)           *)
(*   dwell   src/unnamed/part_006 (UnifiedDwell, CSV-label variant)        *)
(*           src/unnamed/part_005 (UnifiedDwell, earlier CSV variant)      *)
(*           src/src/components/layers/UnifiedDwell.tsx (threshold variant)*)
(*   colors  src/unnamed/part_011 (UnifiedColors, enter/exit lifecycle)   *)
(*   layer   src/src/components/layers/UnifiedDwell.tsx (JSON schedule)    *)
(*                                                                         *)
(* Times are whole seconds.  A JS string whose characters matter (a CSV    *)
(* cell, a motion label) is a sequence of one-character strings; an        *)
(* optional field of a JS object is a record field that may be missing.    *)
(***************************************************************************)
EXTENDS Integers, Sequences, FiniteSets, TLC

VARIABLES
    timeSec,        \* store.timeSec
    speed,          \* store.speed
    durationSec,    \* store.durationSec
    csvPositions,   \* store.csvPositions: Null, or person id -> samples
    lastOp,         \* the last store action called, with its argument
    now,            \* the host's clock (performance.now / rAF timestamp), s
    lastTickTime,   \* ticker: lastTickTime (NoTime = null)
    rafId,          \* ticker: rafId (NoHandle = null)
    raf,            \* the host's animation frame callbacks: handles issued, pending
    pc,             \* position inside the current animation frame
    tSeen,          \* dwell: timeSec captured by the rendered step closure
    last,           \* dwell: `last` of the step closure
    csvNormalized,  \* dwell: module flag csvNormalized
    dwellStates,    \* dwell: Map personId -> DwellState
    enterLog,       \* dwell: the last 'ENTER interval' record logged for P01
    stepLog,        \* observer: dtSec and the dwell map as the last step began
    drive,          \* dwell harness: how the step's time and dtSec are drawn
    animations,     \* UnifiedColors: the lifecycle entry of each person
    schedule,       \* UnifiedDwell.tsx: the loaded motion schedule
    lastFrameTime,  \* UnifiedDwell.tsx: lastFrameTime
    drawn,          \* UnifiedDwell.tsx: what the last render put on screen
    peopleAtTime,   \* store.peopleAtTime
    query           \* resolver harness: the last lookup and its results

vars == <<timeSec, speed, durationSec, csvPositions, peopleAtTime, lastOp, now,
          lastTickTime, rafId, raf, pc, tSeen, last, csvNormalized, dwellStates, enterLog,
          stepLog, drive, animations, schedule, lastFrameTime, drawn, query>>

storeVars == <<timeSec, speed, durationSec, csvPositions, peopleAtTime, lastOp>>
tickerVars == <<lastTickTime, rafId, raf>>
frameVars == <<now, tickerVars, pc, tSeen, last>>
dwellVars == <<csvNormalized, dwellStates, enterLog, stepLog, drive, animations,
               schedule, lastFrameTime, drawn>>

-----------------------------------------------------------------------------
(* Values *)

Null == [null |-> TRUE]
NoTime == 0 - 1
NoHandle == 0
NoKey == <<>>
NoQuery == [fn |-> "none", t |-> NoTime]

Min(a, b) == IF a <= b THEN a ELSE b
Max(a, b) == IF a >= b THEN a ELSE b

Str_STILL == <<"S", "T", "I", "L", "L">>
Str_MOVING == <<"M", "O", "V", "I", "N", "G">>

PersonOrder == <<"P01", "P02">>
PersonIds == {PersonOrder[i] : i \in 1..Len(PersonOrder)}

Has(r, f) == f \in DOMAIN r

-----------------------------------------------------------------------------
(* JS string and number primitives used by the code *)

IsSpace(c) == c = " "

RECURSIVE TrimLeft(_)
TrimLeft(s) ==
    IF s # <<>> /\ IsSpace(Head(s)) THEN TrimLeft(Tail(s)) ELSE s

RECURSIVE TrimRight(_)
TrimRight(s) ==
    IF s # <<>> /\ IsSpace(s[Len(s)])
    THEN TrimRight(SubSeq(s, 1, Len(s) - 1))
    ELSE s

\* String.prototype.trim
Trim(s) == TrimRight(TrimLeft(s))

UpperChar(c) ==
    CASE c = "s" -> "S"
      [] c = "t" -> "T"
      [] c = "i" -> "I"
      [] c = "l" -> "L"
      [] c = "m" -> "M"
      [] c = "o" -> "O"
      [] c = "v" -> "V"
      [] c = "n" -> "N"
      [] c = "g" -> "G"
      [] c = "x" -> "X"
      [] c = "p" -> "P"
      [] OTHER -> c

\* String.prototype.toUpperCase
ToUpperCase(s) == [i \in 1..Len(s) |-> UpperChar(s[i])]

Digits == <<"0", "1", "2", "3", "4", "5", "6", "7", "8", "9">>
IsDigit(c) == \E d \in 1..Len(Digits) : Digits[d] = c
DigitVal(c) == (CHOOSE d \in 1..Len(Digits) : Digits[d] = c) - 1

NaN == [nan |-> TRUE]
IsNaN(v) == v = NaN

RECURSIVE DigitRun(_, _, _)
\* the digits at the front of s, read as a number; seen: a digit was read
DigitRun(s, acc, seen) ==
    IF s # <<>> /\ IsDigit(Head(s))
    THEN DigitRun(Tail(s), acc * 10 + DigitVal(Head(s)), TRUE)
    ELSE IF seen THEN [val |-> acc] ELSE NaN

\* parseInt(text, 10): optional sign, then the leading digits; NaN if none
ParseInt(text) ==
    LET s == TrimLeft(text)
        neg == s # <<>> /\ Head(s) = "-"
        body == IF s # <<>> /\ Head(s) \in {"-", "+"} THEN Tail(s) ELSE s
        r == DigitRun(body, 0, FALSE)
    IN  IF IsNaN(r) THEN NaN ELSE [val |-> IF neg THEN 0 - r.val ELSE r.val]

-----------------------------------------------------------------------------
(* Store: helpers *)

\* variant: the remainder as JS's % leaves it, negative for a negative angle
normalizeAngle_remainderOnly(angle) ==
    IF angle >= 0 THEN angle % 360 ELSE 0 - ((0 - angle) % 360)

normalizeAngle(angle) ==
    \* JS % keeps the sign of the dividend
    LET normalized == IF angle >= 0 THEN angle % 360 ELSE 0 - ((0 - angle) % 360)
    IN  IF normalized < 0 THEN normalized + 360 ELSE normalized

RECURSIVE InsertSorted_beforeEqual(_, _)
\* variant: x goes in front of the elements of its own tSec
InsertSorted_beforeEqual(sorted, x) ==
    IF sorted = <<>> THEN <<x>>
    ELSE IF Head(sorted).tSec < x.tSec
         THEN <<Head(sorted)>> \o InsertSorted_beforeEqual(Tail(sorted), x)
         ELSE <<x>> \o sorted

RECURSIVE InsertSorted(_, _)
\* x placed after every element whose tSec is <= x.tSec (stable)
InsertSorted(sorted, x) ==
    IF sorted = <<>> THEN <<x>>
    ELSE IF Head(sorted).tSec <= x.tSec
         THEN <<Head(sorted)>> \o InsertSorted(Tail(sorted), x)
         ELSE <<x>> \o sorted

RECURSIVE SortByTSec(_)
\* Array.prototype.sort((a, b) => a.tSec - b.tSec), which is stable
SortByTSec(arr) ==
    IF arr = <<>> THEN <<>>
    ELSE InsertSorted(SortByTSec(SubSeq(arr, 1, Len(arr) - 1)), arr[Len(arr)])

\* the JS % operator on integers: the result has the sign of the dividend
JsMod(a, n) == IF a >= 0 THEN a % n ELSE 0 - ((0 - a) % n)

\* variant: the plain difference, with no wrap at 360
shortestAngleDist_noWrap(from, to) == to - from

\* variant: a half turn comes out as 180, the range is (-180, 180]
shortestAngleDist_halfTurnUp(from, to) ==
    LET diff == to - from
        normalized == JsMod(diff + 180, 360) - 180
        d == IF normalized < -180 THEN normalized + 360 ELSE normalized
    IN  IF d = -180 THEN 180 ELSE d

shortestAngleDist(from, to) ==
    LET diff == to - from
        normalized == JsMod(diff + 180, 360) - 180
    IN  IF normalized < -180 THEN normalized + 360 ELSE normalized

\* a * num / den rounded down (the code computes it in floating point)
Scaled(a, num, den) == (a * num) \div den

\* The fields of a store sample that interpolation copies or rebuilds.
\* Angles are whole degrees, radiusFactor is in thousandths.
interpolateCSVPosition(before, after, t) ==
    IF before.tSec = after.tSec THEN before
    ELSE
      LET num == t - before.tSec
          den == after.tSec - before.tSec
          ang == IF Has(before, "angleDeg") /\ Has(after, "angleDeg")
                 THEN [angleDeg |-> normalizeAngle(before.angleDeg
                          + Scaled(shortestAngleDist(before.angleDeg, after.angleDeg), num, den))]
                 ELSE IF Has(before, "angleDeg")
                      THEN [angleDeg |-> before.angleDeg] ELSE <<>>
          rad == IF Has(before, "radiusFactor") /\ Has(after, "radiusFactor")
                 THEN [radiusFactor |-> before.radiusFactor
                          + Scaled(after.radiusFactor - before.radiusFactor, num, den)]
                 ELSE IF Has(before, "radiusFactor")
                      THEN [radiusFactor |-> before.radiusFactor] ELSE <<>>
          ben == IF Has(before, "bench") THEN [bench |-> before.bench] ELSE <<>>
      IN  [tSec |-> t] @@ ang @@ rad @@ ben

RadiusOne == 1000

\* one person's entry of peopleAtTime in CSV mode, or <<>> when the person
\* is left out
\* variant: the first sample of the track is always taken as `before`
PersonAtTime_fromFirst(personId, samples, t) ==
    LET bs == {i \in 1..Len(samples) : samples[i].tSec <= t}
        as == {i \in 1..Len(samples) : samples[i].tSec >= t}
        ai == CHOOSE i \in as : \A j \in as : i <= j
        before == samples[1]
        after == samples[ai]
        out(s) == (Has(s, "bench") /\ s.bench = "EXIT")
                  \/ (Has(s, "radiusFactor") /\ s.radiusFactor > 1000)
        isExited == out(before) \/ (as # {} /\ out(after) /\ t >= after.tSec)
        interpolated == IF as # {} /\ before.tSec # after.tSec
                        THEN interpolateCSVPosition(before, after, t)
                        ELSE before
    IN  IF samples = <<>> \/ bs = {} THEN <<>>
        ELSE IF isExited THEN <<>>
        ELSE IF ~Has(interpolated, "angleDeg") \/ ~Has(interpolated, "radiusFactor")
             THEN <<>>
        ELSE <<[id |-> personId,
                currentAngleDeg |-> interpolated.angleDeg,
                currentRadiusFactor |-> interpolated.radiusFactor,
                isVisible |-> TRUE]>>

\* variant: a person whose last sample at or before t is labelled STILL is
\* left out of the snapshot
PersonAtTime_stillLeftOut(personId, samples, t) ==
    LET bs == {i \in 1..Len(samples) : samples[i].tSec <= t}
        as == {i \in 1..Len(samples) : samples[i].tSec >= t}
        bi == CHOOSE i \in bs : \A j \in bs : j <= i
        ai == CHOOSE i \in as : \A j \in as : i <= j
        before == samples[bi]
        after == samples[ai]
        out(s) == (Has(s, "bench") /\ s.bench = "EXIT")
                  \/ (Has(s, "radiusFactor") /\ s.radiusFactor > 1000)
        isExited == out(before) \/ (as # {} /\ out(after) /\ t >= after.tSec)
        interpolated == IF as # {} /\ before.tSec # after.tSec
                        THEN interpolateCSVPosition(before, after, t)
                        ELSE before
    IN  IF samples = <<>> \/ bs = {} THEN <<>>
        ELSE IF isExited THEN <<>>
        ELSE IF Has(before, "motion") /\ before.motion = <<"S", "T", "I", "L", "L">>
             THEN <<>>
        ELSE IF ~Has(interpolated, "angleDeg") \/ ~Has(interpolated, "radiusFactor")
             THEN <<>>
        ELSE <<[id |-> personId,
                currentAngleDeg |-> interpolated.angleDeg,
                currentRadiusFactor |-> interpolated.radiusFactor,
                isVisible |-> TRUE]>>

PersonAtTime(personId, samples, t) ==
    LET bs == {i \in 1..Len(samples) : samples[i].tSec <= t}
        as == {i \in 1..Len(samples) : samples[i].tSec >= t}
        \* the loop keeps the last match for `before`, the first for `after`
        bi == CHOOSE i \in bs : \A j \in bs : j <= i
        ai == CHOOSE i \in as : \A j \in as : i <= j
        before == samples[bi]
        after == samples[ai]
        out(s) == (Has(s, "bench") /\ s.bench = "EXIT")
                  \/ (Has(s, "radiusFactor") /\ s.radiusFactor > RadiusOne)
        isExited == out(before) \/ (as # {} /\ out(after) /\ t >= after.tSec)
        interpolated == IF as # {} /\ before.tSec # after.tSec
                        THEN interpolateCSVPosition(before, after, t)
                        ELSE before
    IN  IF samples = <<>> \/ bs = {} THEN <<>>
        ELSE IF isExited THEN <<>>
        ELSE IF ~Has(interpolated, "angleDeg") \/ ~Has(interpolated, "radiusFactor")
             THEN <<>>
        ELSE <<[id |-> personId,
                currentAngleDeg |-> interpolated.angleDeg,
                currentRadiusFactor |-> interpolated.radiusFactor,
                isVisible |-> TRUE]>>

RECURSIVE PeopleOf(_, _, _)
PeopleOf(ids, csv, t) ==
    IF ids = <<>> THEN <<>>
    ELSE (IF Head(ids) \in DOMAIN csv
          THEN PersonAtTime(Head(ids), csv[Head(ids)], t) ELSE <<>>)
         \o PeopleOf(Tail(ids), csv, t)

\* the value computePeopleAtTime stores in peopleAtTime (peopleBase is
\* empty: nothing has fetched people.json)
computePeopleAtTime(csv, t) ==
    IF csv # Null THEN PeopleOf(PersonOrder, csv, t) ELSE <<>>

-----------------------------------------------------------------------------
(* Store: loadCSVData.  A row is the `row` object built from one CSV line:   *)
(* personId, bench and notes are the cell's text ("" when the cell is       *)
(* empty), tSec and motion are the cell's characters, angleDeg and          *)
(* radiusFactor are present when the cell is not empty and hold the parsed  *)
(* number.                                                                  *)

BenchSeats == {"T1", "T2", "L", "R", "B1", "B2"}
SeatRadius == 920

RowAccepted(row) == row.personId # "" /\ ~IsNaN(ParseInt(row.tSec))

\* the CSVSample built from an accepted row; the motion cell is not read
SampleOfRow(row) ==
    [tSec |-> ParseInt(row.tSec).val]
    @@ (IF Has(row, "angleDeg")
        THEN [angleDeg |-> normalizeAngle(row.angleDeg)] ELSE <<>>)
    @@ (IF Has(row, "radiusFactor") THEN [radiusFactor |-> row.radiusFactor]
        ELSE IF row.bench \in BenchSeats THEN [radiusFactor |-> SeatRadius]
        ELSE <<>>)
    @@ (IF row.bench # "" THEN [bench |-> row.bench] ELSE <<>>)
    @@ (IF row.notes # "" THEN [notes |-> row.notes] ELSE <<>>)

RECURSIVE SamplesFor(_, _)
\* the samples pushed for personId, in row order
SamplesFor(rows, personId) ==
    IF rows = <<>> THEN <<>>
    ELSE (IF RowAccepted(Head(rows)) /\ Head(rows).personId = personId
          THEN <<SampleOfRow(Head(rows))>> ELSE <<>>)
         \o SamplesFor(Tail(rows), personId)

RECURSIVE MaxTimeOf_lastRow(_, _)
\* variant: maxTime is the tSec of the last accepted row
MaxTimeOf_lastRow(rows, maxTime) ==
    IF rows = <<>> THEN maxTime
    ELSE MaxTimeOf_lastRow(Tail(rows),
                           IF RowAccepted(Head(rows))
                           THEN ParseInt(Head(rows).tSec).val
                           ELSE maxTime)

RECURSIVE MaxTimeOf(_, _)
MaxTimeOf(rows, maxTime) ==
    IF rows = <<>> THEN maxTime
    ELSE MaxTimeOf(Tail(rows),
                   IF RowAccepted(Head(rows))
                   THEN Max(maxTime, ParseInt(Head(rows).tSec).val)
                   ELSE maxTime)

\* the csvPositions object loadCSVData builds: a key per person with an
\* accepted row, each array sorted by tSec
ParsedPositions(rows) ==
    LET ids == {rows[i].personId : i \in {j \in 1..Len(rows) : RowAccepted(rows[j])}}
    IN  [id \in ids |-> SortByTSec(SamplesFor(rows, id))]

LoadCSVData(rows) ==
    /\ csvPositions' = ParsedPositions(rows)
    /\ durationSec' = MaxTimeOf(rows, 0)
    /\ timeSec' = 0
    /\ peopleAtTime' = computePeopleAtTime(csvPositions', timeSec')
    /\ lastOp' = [op |-> "loadCSVData"]
    /\ UNCHANGED speed

-----------------------------------------------------------------------------
(* Store: clock actions *)

setTimeValue(t, dur) == Max(0, Min(dur, t))

SetTime(t) ==
    /\ timeSec' = setTimeValue(t, durationSec)
    /\ peopleAtTime' = computePeopleAtTime(csvPositions, timeSec')
    /\ lastOp' = [op |-> "setTime", arg |-> t]
    /\ UNCHANGED <<speed, durationSec, csvPositions>>

SetSpeed(s) ==
    /\ speed' = s
    /\ lastOp' = [op |-> "setSpeed", arg |-> s]
    /\ UNCHANGED <<timeSec, durationSec, csvPositions, peopleAtTime>>

tickValue(t, deltaTime, sp, dur) == Min(t + deltaTime * sp, dur)

Tick(deltaTime) ==
    /\ timeSec' = tickValue(timeSec, deltaTime, speed, durationSec)
    /\ peopleAtTime' = computePeopleAtTime(csvPositions, timeSec')
    /\ lastOp' = [op |-> "tick", arg |-> deltaTime]
    /\ UNCHANGED <<speed, durationSec, csvPositions>>

InitStore ==
    /\ timeSec = 0
    /\ speed = 1
    /\ durationSec = 300
    /\ csvPositions = Null
    /\ peopleAtTime = <<>>
    /\ lastOp = [op |-> "create"]

InitFrame ==
    /\ now = 0
    /\ lastTickTime = NoTime
    /\ rafId = NoHandle
    /\ raf = [handles |-> 0, pending |-> {}]
    /\ pc = "idle"
    /\ tSeen = 0
    /\ last = 0

InitDwell ==
    /\ csvNormalized = FALSE
    /\ dwellStates = <<>>
    /\ enterLog = <<>>
    /\ stepLog = <<>>
    /\ drive = "none"
    /\ animations = <<>>
    /\ schedule = <<>>
    /\ lastFrameTime = 0
    /\ drawn = <<>>

-----------------------------------------------------------------------------
(* Dwell layer: motion labels and interval lookup.  A CSVRow may carry a    *)
(* motion field (part_006 line 16).                                         *)

NoInterval == [none |-> TRUE]

\* an optional field as passed to a function: <<>> is undefined
Opt(r, f) == IF Has(r, f) THEN <<r[f]>> ELSE <<>>

\* variant: the label is upper-cased but not trimmed
normalizeMotion_noTrim(m) ==
    IF m = <<>> \/ m[1] = <<>> THEN Str_MOVING
    ELSE IF ToUpperCase(m[1]) = Str_STILL THEN Str_STILL ELSE Str_MOVING

normalizeMotion(m) ==
    IF m = <<>> \/ m[1] = <<>> THEN Str_MOVING
    ELSE LET v == ToUpperCase(Trim(m[1]))
         IN  IF v = Str_STILL THEN Str_STILL ELSE Str_MOVING

\* variant: the interval labelled by its second sample
IntervalOf_labelFromB(A, B) ==
    [tA |-> A.tSec, tB |-> B.tSec, motion |-> normalizeMotion(Opt(B, "motion"))]

IntervalOf(A, B) ==
    [tA |-> A.tSec, tB |-> B.tSec, motion |-> normalizeMotion(Opt(A, "motion"))]

\* variant: intervals open on the left and closed on the right
LoopHit_rightInclusive(samples, t) ==
    LET hits == {i \in 1..(Len(samples) - 1) :
                    t > samples[i].tSec /\ t <= samples[i + 1].tSec}
    IN  IF hits = {} THEN 0 ELSE CHOOSE i \in hits : \A j \in hits : i <= j

\* the i of the first loop iteration that returns, 0 when none does
LoopHit(samples, t) ==
    LET hits == {i \in 1..(Len(samples) - 1) :
                    t >= samples[i].tSec /\ t < samples[i + 1].tSec}
    IN  IF hits = {} THEN 0 ELSE CHOOSE i \in hits : \A j \in hits : i <= j

\* variant: past the last sample the interval spans the whole track
getIntervalMotion_wholeTrack(personId, t, csv) ==
    IF csv = Null THEN NoInterval
    ELSE IF personId \notin DOMAIN csv THEN NoInterval
    ELSE LET samples == csv[personId]
             n == Len(samples)
         IN  IF n < 2 THEN NoInterval
             ELSE IF t < samples[1].tSec THEN IntervalOf(samples[1], samples[2])
             ELSE IF LoopHit(samples, t) # 0
                  THEN IntervalOf(samples[LoopHit(samples, t)],
                                  samples[LoopHit(samples, t) + 1])
             ELSE IntervalOf(samples[1], samples[n])

\* part_006
getIntervalMotion(personId, t, csv) ==
    IF csv = Null THEN NoInterval
    ELSE IF personId \notin DOMAIN csv THEN NoInterval
    ELSE LET samples == csv[personId]
             n == Len(samples)
         IN  IF n < 2 THEN NoInterval
             ELSE IF t < samples[1].tSec THEN IntervalOf(samples[1], samples[2])
             ELSE IF LoopHit(samples, t) # 0
                  THEN IntervalOf(samples[LoopHit(samples, t)],
                                  samples[LoopHit(samples, t) + 1])
             ELSE IntervalOf(samples[n - 1], samples[n])

\* part_005, the CSV variant: no branch for a time before the first sample
getIntervalMotion_v5(personId, t, csv) ==
    IF csv = Null THEN NoInterval
    ELSE IF personId \notin DOMAIN csv THEN NoInterval
    ELSE LET samples == csv[personId]
             n == Len(samples)
         IN  IF n < 2 THEN NoInterval
             ELSE IF LoopHit(samples, t) # 0
                  THEN IntervalOf(samples[LoopHit(samples, t)],
                                  samples[LoopHit(samples, t) + 1])
             ELSE IntervalOf(samples[n - 1], samples[n])

\* UnifiedDwell.tsx, the threshold variant: the bracketing samples A and B
bracketSamples(personId, t, csv) ==
    IF csv = Null THEN NoInterval
    ELSE IF personId \notin DOMAIN csv THEN NoInterval
    ELSE LET samples == csv[personId]
             n == Len(samples)
             hits == {i \in 1..(n - 1) :
                         samples[i].tSec <= t /\ samples[i + 1].tSec > t}
             i0 == CHOOSE i \in hits : \A j \in hits : i <= j
         IN  IF n = 0 THEN NoInterval
             ELSE IF hits # {} THEN [A |-> samples[i0], B |-> samples[i0 + 1]]
             ELSE IF t >= samples[n].tSec THEN [A |-> samples[n], B |-> samples[n]]
             ELSE NoInterval

-----------------------------------------------------------------------------
(* Dwell layer of part_006: state and update *)

DWELL_DEFAULT_DIAM_PX == 10
DWELL_GROW_DIAM_PER_SEC == 10

NewDwell == [intervalKey |-> NoKey, ringDiameterPx |-> DWELL_DEFAULT_DIAM_PX]

\* getDwell: the stored state, or a new one at the default diameter
getDwell(states, personId) ==
    IF personId \in DOMAIN states THEN states[personId] ELSE NewDwell

\* `${im.tA}-${im.tB}`: two intervals have the same key exactly when both
\* of their times agree
IntervalKey(im) == <<im.tA, im.tB>>

\* variant: the diameter goes back to the default on every new interval
EnterInterval_resetAlways(s, im) ==
    IF s.intervalKey # IntervalKey(im)
    THEN [intervalKey |-> IntervalKey(im), ringDiameterPx |-> DWELL_DEFAULT_DIAM_PX]
    ELSE s

\* the state on entering the interval im: the key is replaced, the
\* diameter goes back to the default only for a MOVING interval
EnterInterval(s, im) ==
    IF s.intervalKey # IntervalKey(im)
    THEN [intervalKey |-> IntervalKey(im),
          ringDiameterPx |-> IF im.motion = Str_MOVING
                             THEN DWELL_DEFAULT_DIAM_PX ELSE s.ringDiameterPx]
    ELSE s

\* grow on STILL, hold the default on MOVING
ApplyRule(s, im, dtSec) ==
    [s EXCEPT !.ringDiameterPx =
        IF im.motion = Str_STILL THEN @ + DWELL_GROW_DIAM_PER_SEC * dtSec
        ELSE DWELL_DEFAULT_DIAM_PX]

\* variant: the state is fetched, and so created, before the lookup
updateDwellForPerson_createFirst(states, personId, t, dtSec, csv) ==
    LET im == getIntervalMotion(personId, t, csv)
        s0 == getDwell(states, personId)
    IN  [p \in DOMAIN states \cup {personId} |->
            IF p # personId THEN states[p]
            ELSE IF im = NoInterval THEN s0
            ELSE ApplyRule(EnterInterval(s0, im), im, dtSec)]

\* variant: a MOVING interval leaves the diameter as it was
updateDwellForPerson_neverReset(states, personId, t, dtSec, csv) ==
    LET im == getIntervalMotion(personId, t, csv)
    IN  IF im = NoInterval THEN states
        ELSE LET s0 == getDwell(states, personId)
                 s == [intervalKey |-> IntervalKey(im),
                       ringDiameterPx |->
                           IF im.motion = Str_STILL
                           THEN s0.ringDiameterPx + DWELL_GROW_DIAM_PER_SEC * dtSec
                           ELSE s0.ringDiameterPx]
             IN  [p \in DOMAIN states \cup {personId} |->
                     IF p = personId THEN s ELSE states[p]]

\* the dwell map after updateDwellForPerson(personId, t, dtSec, csv)
updateDwellForPerson(states, personId, t, dtSec, csv) ==
    LET im == getIntervalMotion(personId, t, csv)
    IN  IF im = NoInterval THEN states
        ELSE LET s == ApplyRule(EnterInterval(getDwell(states, personId), im), im, dtSec)
             IN  [p \in DOMAIN states \cup {personId} |->
                     IF p = personId THEN s ELSE states[p]]

RECURSIVE UpdateAll(_, _, _, _, _)
\* for (const id of ids) updateDwellForPerson(id, timeSec, dtSec, csvPositions)
UpdateAll(states, ids, t, dtSec, csv) ==
    IF ids = <<>> THEN states
    ELSE UpdateAll(updateDwellForPerson(states, Head(ids), t, dtSec, csv),
                   Tail(ids), t, dtSec, csv)

RECURSIVE KeysOf(_, _)
\* Object.keys(csvPositions)
KeysOf(ids, csv) ==
    IF ids = <<>> THEN <<>>
    ELSE (IF Head(ids) \in DOMAIN csv THEN <<Head(ids)>> ELSE <<>>)
         \o KeysOf(Tail(ids), csv)

\* assertCsvReady's one-time pass: each array sorted by tSec, each row's
\* motion replaced by its normal form
NormalizedCsv(csv) ==
    [id \in DOMAIN csv |->
        LET arr == SortByTSec(csv[id])
        IN  [i \in 1..Len(arr) |->
                [f \in DOMAIN arr[i] \cup {"motion"} |->
                    IF f = "motion" THEN normalizeMotion(Opt(arr[i], "motion"))
                    ELSE arr[i][f]]]]

assertCsvReady(csv) == csv # Null /\ DOMAIN csv # {}

\* the 'ENTER interval' line, written for P01 when its interval key changes
EnterLogged(states, t, csv, old) ==
    LET im == getIntervalMotion("P01", t, csv)
    IN  IF im # NoInterval /\ getDwell(states, "P01").intervalKey # IntervalKey(im)
        THEN [key |-> IntervalKey(im), motion |-> im.motion,
              diam |-> EnterInterval(getDwell(states, "P01"), im).ringDiameterPx]
        ELSE old

\* The body of `step` run with the closure's timeSec = t and a measured
\* dtSec: nothing but rescheduling until the CSV is ready, then one update
\* of every id of the CSV.
StepBody(t, dtSec) ==
    /\ stepLog' = [t |-> t, dtSec |-> dtSec, before |-> dwellStates]
    /\ IF assertCsvReady(csvPositions)
       THEN LET csv == IF csvNormalized THEN csvPositions
                       ELSE NormalizedCsv(csvPositions)
            IN  /\ csvPositions' = csv
                /\ csvNormalized' = TRUE
                /\ dwellStates' = UpdateAll(dwellStates, KeysOf(PersonOrder, csv),
                                            t, dtSec, csv)
                /\ enterLog' = EnterLogged(dwellStates, t, csv, enterLog)
       ELSE UNCHANGED <<csvPositions, csvNormalized, dwellStates, enterLog>>

-----------------------------------------------------------------------------
(* CSV inputs *)

Row(id, t, motion) ==
    [personId |-> id, tSec |-> t, bench |-> "", motion |-> motion, notes |-> ""]

RowAt(id, t, motion, angle, radius) ==
    Row(id, t, motion) @@ [angleDeg |-> angle, radiusFactor |-> radius]

Low_still == <<"s", "t", "i", "l", "l">>

\* every interval of P01 labelled STILL: six samples, five intervals
Rows_Still5 ==
    <<RowAt("P01", <<"0">>, Str_STILL, 0, 500),
      RowAt("P01", <<"1">>, Low_still, 0, 500),
      RowAt("P01", <<"2">>, Str_STILL, 0, 500),
      RowAt("P01", <<"3">>, Str_STILL, 0, 500),
      RowAt("P01", <<"4">>, Str_STILL, 0, 500),
      RowAt("P01", <<"5">>, Str_STILL, 0, 500)>>

\* rows out of order, a row without an id, rows whose tSec is no number
Rows_Mixed ==
    <<RowAt("P01", <<"4">>, Str_MOVING, 90, 500),
      RowAt("P01", <<"0">>, Str_STILL, 0, 500),
      Row("", <<"9">>, <<>>),
      Row("P02", <<"x">>, <<>>),
      RowAt("P02", <<"2">>, <<>>, 370, 1080),
      Row("P02", <<>>, Str_STILL)>>

Rows_Junk == <<Row("", <<"7">>, <<>>), Row("P01", <<"-">>, <<>>)>>

CsvTexts == {<<>>, Rows_Still5, Rows_Mixed, Rows_Junk}

-----------------------------------------------------------------------------
(* The store driven through its exported actions, with any arguments *)

MaxUnder == 3

TimeArgs == {-2, 0, 1, 3, 5, 301}
SpeedArgs == {-1, 0, 1, 2}
DeltaArgs == {-1, 0, 1, 2}

clockRest == <<frameVars, dwellVars, query>>

CallSetTime == \E t \in TimeArgs : SetTime(t) /\ UNCHANGED clockRest
CallSetSpeed == \E s \in SpeedArgs : SetSpeed(s) /\ UNCHANGED clockRest
CallTick ==
    \E dt \in DeltaArgs :
        /\ timeSec + dt * speed >= 0 - MaxUnder
        /\ Tick(dt)
        /\ UNCHANGED clockRest
CallLoadCSVData == \E rows \in CsvTexts : LoadCSVData(rows) /\ UNCHANGED clockRest

InitClock == InitStore /\ InitFrame /\ InitDwell /\ query = NoQuery

NextClock == CallSetTime \/ CallSetSpeed \/ CallTick \/ CallLoadCSVData

SpecClock == InitClock /\ [][NextClock]_vars

(* C1: after any sequence of setTime, tick, setSpeed and loadCSVData calls,
   with any numeric arguments, 0 <= timeSec <= durationSec. *)
C1_TimeInRange == 0 <= timeSec /\ timeSec <= durationSec

(* C2: a tick sets timeSec to min(timeSec + dt*speed, durationSec), and a
   tick taken when timeSec equals durationSec leaves it at durationSec. *)
C2_TickAdvancesAndStaysAtEnd ==
    [][lastOp'.op = "tick" =>
          /\ timeSec' = Min(timeSec + lastOp'.arg * speed, durationSec)
          /\ (timeSec = durationSec => timeSec' = durationSec)]_vars

-----------------------------------------------------------------------------
(* Interval lookups and label normalisation called on their own, as the     *)
(* probe overlay calls getIntervalMotion: one call on every small sorted    *)
(* track and query time                                                     *)

MaxT == 3
MaxLen == 3

Pad_still == <<" ", "s", "T", "i", "l", "l", " ">>

\* a CSVRow of a track: tSec and, for lab # <<>>, the motion lab[1]
TrackRow(t, lab) ==
    IF lab = <<>> THEN [tSec |-> t] ELSE [tSec |-> t, motion |-> lab[1]]

TrackLabels == {<<>>, <<Pad_still>>, <<Str_MOVING>>}

IsSortedTimes(ts) == \A i \in 1..(Len(ts) - 1) : ts[i] <= ts[i + 1]

Tracks ==
    UNION {
      {[i \in 1..n |-> TrackRow(ts[i], labs[i])] :
          ts \in {x \in [1..n -> 0..MaxT] : IsSortedTimes(x)},
          labs \in [1..n -> TrackLabels]}
      : n \in 1..MaxLen}

QueryTimes == (0 - 1)..(MaxT + 1)

MotionArgs ==
    {<<>>, <<<<>>>>, <<Str_STILL>>, <<Low_still>>, <<Pad_still>>,
     <<Str_MOVING>>, <<<<" ", " ">>>>, <<<<"s", "t", "i", "l">>>>,
     <<<<"s", "t", "i", "l", "l", "x">>>>, <<<<"s", " ", "t", "i", "l", "l">>>>,
     <<<<" ", "S", "T", "I", "L", "L">>>>, <<<<"m", "o", "v", "i", "n", "g">>>>}

resolveRest == <<storeVars, frameVars, dwellVars>>

LookupIntervalMotion ==
    \E t \in QueryTimes :
        /\ query = NoQuery
        /\ query' = [fn |-> "getIntervalMotion", t |-> t,
                     res |-> getIntervalMotion("P01", t, csvPositions)]
        /\ UNCHANGED resolveRest

LookupIntervalMotion_v5 ==
    \E t \in QueryTimes :
        /\ query = NoQuery
        /\ query' = [fn |-> "getIntervalMotion_v5", t |-> t,
                     res |-> getIntervalMotion_v5("P01", t, csvPositions)]
        /\ UNCHANGED resolveRest

LookupBracket ==
    \E t \in QueryTimes :
        /\ query = NoQuery
        /\ query' = [fn |-> "bracketSamples", t |-> t,
                     res |-> bracketSamples("P01", t, csvPositions)]
        /\ UNCHANGED resolveRest

CallNormalizeMotion ==
    \E m \in MotionArgs :
        /\ query = NoQuery
        /\ query' = [fn |-> "normalizeMotion", t |-> NoTime, arg |-> m,
                     res |-> normalizeMotion(m)]
        /\ UNCHANGED resolveRest

InitResolve ==
    /\ timeSec = 0
    /\ speed = 1
    /\ durationSec = 300
    /\ csvPositions \in {[id \in {"P01"} |-> tr] : tr \in Tracks}
    /\ peopleAtTime = <<>>
    /\ lastOp = [op |-> "create"]
    /\ InitFrame /\ InitDwell
    /\ query = NoQuery

NextResolve ==
    \/ LookupIntervalMotion
    \/ LookupIntervalMotion_v5
    \/ LookupBracket
    \/ CallNormalizeMotion

SpecResolve == InitResolve /\ [][NextResolve]_vars

\* the track and the answer of the last interval lookup
QTrack == csvPositions["P01"]
QN == Len(QTrack)
QIsLookup(fns) == query.t # NoTime /\ query.fn \in fns /\ QN >= 2
QIsPair(i) ==
    /\ Has(query.res, "tA")
    /\ query.res.tA = QTrack[i].tSec
    /\ query.res.tB = QTrack[i + 1].tSec

(* C3: a lookup at a time equal to the tSec of an interior sample returns an
   interval starting at that time, not one that ends there; every lookup at
   a time inside the track's span returns an interval with tA <= t < tB. *)
C3_HalfOpen ==
    QIsLookup({"getIntervalMotion", "getIntervalMotion_v5"}) =>
        /\ (\E k \in 2..(QN - 1) : QTrack[k].tSec = query.t) =>
               /\ Has(query.res, "tA")
               /\ query.res.tA = query.t
        /\ (QTrack[1].tSec <= query.t /\ query.t < QTrack[QN].tSec) =>
               /\ Has(query.res, "tA")
               /\ query.res.tA <= query.t
               /\ query.t < query.res.tB

C3_Witness ==
    /\ QIsLookup({"getIntervalMotion"})
    /\ \E k \in 2..(QN - 1) :
          /\ QTrack[k].tSec = query.t
          /\ QTrack[k - 1].tSec < query.t
          /\ query.t < QTrack[k + 1].tSec
          /\ QIsPair(k)

(* C4: every lookup before the first sample returns the first pair, and
   every lookup at or after the last sample returns the last pair. *)
C4_Clamp ==
    QIsLookup({"getIntervalMotion", "getIntervalMotion_v5", "bracketSamples"}) =>
        LET pairIs(i) ==
                IF query.fn = "bracketSamples"
                THEN /\ Has(query.res, "A")
                     /\ query.res.A = QTrack[i]
                     /\ query.res.B = QTrack[i + 1]
                ELSE QIsPair(i)
        IN  /\ query.t < QTrack[1].tSec => pairIs(1)
            /\ query.t >= QTrack[QN].tSec => pairIs(QN - 1)

(* C5: for a track of two or more samples, the lookup of part_006 returns
   an interval at every query time, and it is made of two adjacent samples. *)
C5_OneAdjacentPair ==
    QIsLookup({"getIntervalMotion"}) => \E i \in 1..(QN - 1) : QIsPair(i)

C5_Witness ==
    /\ QIsLookup({"getIntervalMotion"})
    /\ QN >= 3
    /\ query.t > QTrack[QN].tSec
    /\ QTrack[1].tSec < QTrack[QN - 1].tSec
    /\ QIsPair(QN - 1)

\* s is "STILL" in any mix of cases with blanks around it
IsStillText(s) ==
    \E a \in 0..Len(s) :
        /\ a + 5 <= Len(s)
        /\ \A k \in 1..Len(s) :
              IF k <= a \/ k > a + 5 THEN s[k] = " "
              ELSE s[k] \in {Str_STILL[k - a], Low_still[k - a]}

(* C10: a label is STILL exactly when, trimmed and compared without regard
   to case, it reads STILL; a missing, blank or other label is MOVING; and
   an interval carries the normalised label of its starting sample. *)
C10_LabelNormalization ==
    /\ query.fn = "normalizeMotion" =>
          /\ query.res \in {Str_STILL, Str_MOVING}
          /\ query.res = Str_STILL <=>
                (query.arg # <<>> /\ IsStillText(query.arg[1]))
    /\ QIsLookup({"getIntervalMotion"}) =>
          \E i \in 1..(QN - 1) :
              /\ QIsPair(i)
              /\ query.res.motion \in {Str_STILL, Str_MOVING}
              /\ query.res.motion = Str_STILL <=>
                    (Has(QTrack[i], "motion") /\ IsStillText(QTrack[i].motion))

C10_Witness ==
    /\ QIsLookup({"getIntervalMotion"})
    /\ QN = 3
    /\ QTrack[1].tSec < QTrack[2].tSec /\ QTrack[2].tSec < QTrack[3].tSec
    /\ query.t = QTrack[1].tSec
    /\ Has(QTrack[1], "motion") /\ QTrack[1].motion = Pad_still
    /\ Has(QTrack[2], "motion") /\ QTrack[2].motion = Str_MOVING
    /\ query.res.motion = Str_STILL

-----------------------------------------------------------------------------
(* The dwell step of part_006 run over typed CSV rows.  The rows carry the
   motion field of the component's CSVRow type; the step is given the time
   its closure holds and the dtSec it measured. *)

MaxNow == 25

DwellTimes == {0 - 5, 0, 5, 10, 15, 20, 25}
DtArgs == {0, 5, 10}

TypedRow(t, lab, angle) ==
    TrackRow(t, lab) @@ [angleDeg |-> angle, radiusFactor |-> 500]

\* samples (t=0, STILL), (t=10, STILL), (t=20, MOVING); angles 0, 0, 90
Track_E2E ==
    <<TypedRow(0, <<Str_STILL>>, 0), TypedRow(10, <<Str_STILL>>, 0),
      TypedRow(20, <<Str_MOVING>>, 90)>>

Track_StillMoving ==
    <<TypedRow(0, <<Str_STILL>>, 0), TypedRow(10, <<Str_MOVING>>, 0),
      TypedRow(20, <<Str_STILL>>, 90)>>

Track_MovingStill ==
    <<TypedRow(0, <<Str_MOVING>>, 0), TypedRow(10, <<Pad_still>>, 45),
      TypedRow(20, <<>>, 45)>>

Track_Unlabelled == <<TypedRow(0, <<>>, 0), TypedRow(10, <<>>, 90)>>

Track_Single == <<TypedRow(0, <<Str_STILL>>, 0)>>

Track_Late == <<TypedRow(5, <<Str_STILL>>, 0), TypedRow(15, <<Str_MOVING>>, 0)>>

TypedCsvs ==
    {[id \in {"P01"} |-> tr] :
        tr \in {Track_E2E, Track_StillMoving, Track_MovingStill, Track_Unlabelled,
                Track_Single}}
    \cup
    {[id \in {"P01", "P02"} |-> IF id = "P01" THEN tr ELSE tr2] :
        tr \in {Track_E2E, Track_StillMoving}, tr2 \in {Track_Single, Track_Late}}

dwellRest ==
    <<speed, durationSec, peopleAtTime, lastOp, tickerVars, query, drive, animations,
      schedule, lastFrameTime, drawn>>

\* one run of `step`: the closure's time is t, the measured dtSec is dt
StepAt(t, dt) ==
    /\ now + dt <= MaxNow
    /\ StepBody(t, dt)
    /\ now' = now + dt
    /\ last' = now'
    /\ timeSec' = t
    /\ tSeen' = t
    /\ pc' = "stepped"
    /\ UNCHANGED dwellRest

\* playback at 1x from t = 0: each step sees the time advanced by its dtSec
DwellStepForward ==
    /\ drive = "forward"
    /\ \E dt \in DtArgs : StepAt(tSeen + dt, dt)

\* any time (scrubbing, any speed) with any dtSec >= 0
DwellStepAny ==
    /\ drive = "any"
    /\ \E t \in DwellTimes, dt \in DtArgs : StepAt(t, dt)

ReloadCsvs == {[id \in {"P01"} |-> tr] : tr \in {Track_Single, Track_StillMoving}}

\* csvPositions replaced by another table while the component is mounted:
\* the effect starts over, the module's dwellStates and csvNormalized stay
DwellReload ==
    /\ drive = "any"
    /\ \E csv \in ReloadCsvs :
          /\ csv # csvPositions
          /\ csvPositions' = csv
    /\ timeSec' = 0
    /\ tSeen' = 0
    /\ last' = now
    /\ pc' = "idle"
    /\ stepLog' = <<>>
    /\ UNCHANGED <<dwellRest, now, csvNormalized, dwellStates, enterLog>>

InitDwellSteps ==
    /\ timeSec = 0 /\ speed = 1 /\ durationSec = 300
    /\ peopleAtTime = <<>> /\ lastOp = [op |-> "create"]
    /\ csvPositions \in TypedCsvs
    /\ InitFrame
    /\ csvNormalized = FALSE /\ dwellStates = <<>> /\ enterLog = <<>>
    /\ stepLog = <<>>
    /\ drive \in {"forward", "any"}
    /\ animations = <<>>
    /\ schedule = <<>>
    /\ lastFrameTime = 0
    /\ drawn = <<>>
    /\ query = NoQuery

NextDwell == DwellStepForward \/ DwellStepAny \/ DwellReload

SpecDwell == InitDwellSteps /\ [][NextDwell]_vars

Stepped == pc = "stepped"

\* the interval the last step resolved for id
SteppedInterval(id) == getIntervalMotion(id, stepLog.t, csvPositions)

SteppedIds == {id \in DOMAIN csvPositions : SteppedInterval(id) # NoInterval}

RingBefore(id) == getDwell(stepLog.before, id).ringDiameterPx

\* render: state?.ringDiameterPx || DWELL_DEFAULT_DIAM_PX
ringDiameter(states, id) ==
    IF id \in DOMAIN states /\ states[id].ringDiameterPx # 0
    THEN states[id].ringDiameterPx ELSE DWELL_DEFAULT_DIAM_PX

ShortIds == {id \in DOMAIN csvPositions : Len(csvPositions[id]) < 2}

\* C12: for an entity whose track has fewer than 2 samples the tick is a
\* no-op: it changes no dwell state, and the entity's magnitude stays what
\* it was, or reads as the baseline when it never had a state
C12_ShortTrackNoOp ==
    \A id \in ShortIds :
        /\ \A t \in DwellTimes, dt \in DtArgs :
               updateDwellForPerson(dwellStates, id, t, dt, csvPositions) = dwellStates
        /\ Stepped =>
               /\ id \in DOMAIN dwellStates <=> id \in DOMAIN stepLog.before
               /\ id \in DOMAIN dwellStates => dwellStates[id] = stepLog.before[id]
               /\ ringDiameter(dwellStates, id) = ringDiameter(stepLog.before, id)
               /\ id \notin DOMAIN stepLog.before =>
                      ringDiameter(dwellStates, id) = DWELL_DEFAULT_DIAM_PX

\* a step left untouched the grown state of an entity whose track now has
\* one sample
C12_Witness ==
    /\ Stepped
    /\ "P01" \in ShortIds
    /\ "P01" \in DOMAIN stepLog.before
    /\ stepLog.dtSec > 0
    /\ dwellStates["P01"].ringDiameterPx > DWELL_DEFAULT_DIAM_PX
    /\ dwellStates["P01"] = stepLog.before["P01"]

\* C6: after a tick whose interval is MOVING the entity's magnitude is
\* exactly the baseline, whatever it had grown to before the tick
C6_MovingIsBaseline ==
    Stepped =>
        \A id \in SteppedIds :
            SteppedInterval(id).motion = Str_MOVING =>
                /\ id \in DOMAIN dwellStates
                /\ dwellStates[id].ringDiameterPx = DWELL_DEFAULT_DIAM_PX

C6_Witness ==
    /\ Stepped
    /\ "P01" \in SteppedIds
    /\ SteppedInterval("P01").motion = Str_MOVING
    /\ RingBefore("P01") >= DWELL_DEFAULT_DIAM_PX + 100
    /\ getDwell(stepLog.before, "P01").intervalKey # IntervalKey(SteppedInterval("P01"))
    /\ dwellStates["P01"].ringDiameterPx = DWELL_DEFAULT_DIAM_PX

\* C7: a tick whose interval is STILL adds rate x dtSec to the magnitude the
\* entity had, so the magnitude never decreases, and entering a new STILL
\* interval does not reset it
C7_StillGrows ==
    Stepped =>
        \A id \in SteppedIds :
            SteppedInterval(id).motion = Str_STILL =>
                /\ id \in DOMAIN dwellStates
                /\ dwellStates[id].ringDiameterPx =
                       RingBefore(id) + DWELL_GROW_DIAM_PER_SEC * stepLog.dtSec
                /\ dwellStates[id].ringDiameterPx >= RingBefore(id)

C7_Witness ==
    /\ Stepped
    /\ "P01" \in SteppedIds
    /\ SteppedInterval("P01").motion = Str_STILL
    /\ getDwell(stepLog.before, "P01").intervalKey # NoKey
    /\ getDwell(stepLog.before, "P01").intervalKey # IntervalKey(SteppedInterval("P01"))
    /\ RingBefore("P01") > DWELL_DEFAULT_DIAM_PX
    /\ dwellStates["P01"].ringDiameterPx > RingBefore("P01")

PlayedE2E == Stepped /\ drive = "forward" /\ csvPositions["P01"] = Track_E2E

P01Is(t, key, motion, grown) ==
    (PlayedE2E /\ stepLog.t = t) =>
        /\ SteppedInterval("P01") # NoInterval
        /\ IntervalKey(SteppedInterval("P01")) = key
        /\ SteppedInterval("P01").motion = motion
        /\ dwellStates["P01"].intervalKey = key
        /\ dwellStates["P01"].ringDiameterPx = DWELL_DEFAULT_DIAM_PX + grown

-----------------------------------------------------------------------------
(* The program as it runs in the page: the store is filled by loadCSVData,
   the ticker started by startPlaybackTicker advances the clock once per
   animation frame, and UnifiedDwell's step runs in the same frames.  A
   change of timeSec or csvPositions re-renders the component: the effect's
   cleanup cancels the pending step and the effect starts over with the new
   values.  Whether that happens before or after the frame's step is up to
   the renderer, so both orders are steps of the model. *)

MaxFrames == 7

FrameGaps == {1, 2}
UiSpeeds == {1, 2}

playbackRest == <<query, drive, animations, schedule, lastFrameTime, drawn>>

\* between two frames: every re-render has been done
FrameOver == pc \in {"idle", "stepped"} /\ tSeen = timeSec

\* loadCSVData, then the re-render on the new csvPositions
PlaybackLoad ==
    /\ FrameOver
    /\ \E rows \in CsvTexts : LoadCSVData(rows)
    /\ tSeen' = timeSec'
    /\ last' = now
    /\ pc' = "idle"
    /\ UNCHANGED <<now, tickerVars, dwellVars, query>>

\* the speed control; speed is not a dependency of the effect
PlaybackSetSpeed ==
    /\ FrameOver
    /\ \E s \in UiSpeeds : SetSpeed(s)
    /\ UNCHANGED <<frameVars, dwellVars, query>>

\* the ticker's callback of the next frame, gap seconds after the last one
TickerFrame ==
    /\ FrameOver
    /\ \E gap \in FrameGaps :
        /\ now + gap <= MaxFrames
        /\ now' = now + gap
        /\ Tick(IF lastTickTime = NoTime THEN 0 ELSE now' - lastTickTime)
    /\ lastTickTime' = now'
    /\ pc' = "ticked"
    /\ UNCHANGED <<rafId, raf, tSeen, last, dwellVars, query>>

\* the step callback of this frame, with the time its closure holds
DwellStep ==
    /\ pc = "ticked"
    /\ StepBody(tSeen, Max(0, now - last))
    /\ last' = now
    /\ pc' = "stepped"
    /\ UNCHANGED <<timeSec, speed, durationSec, peopleAtTime, lastOp, now,
                   tickerVars, tSeen, playbackRest>>

\* the re-render after the tick changed timeSec: a step still pending in
\* this frame is cancelled
DwellEffect ==
    /\ pc \in {"ticked", "stepped"}
    /\ tSeen # timeSec
    /\ tSeen' = timeSec
    /\ last' = now
    /\ pc' = "idle"
    /\ UNCHANGED <<storeVars, now, tickerVars, dwellVars, query>>

InitPlayback == InitStore /\ InitFrame /\ InitDwell /\ query = NoQuery

NextPlayback ==
    PlaybackLoad \/ PlaybackSetSpeed \/ TickerFrame \/ DwellStep \/ DwellEffect

SpecPlayback == InitPlayback /\ [][NextPlayback]_vars

\* the store holds P01's six samples of Rows_Still5: five intervals, each
\* labelled STILL in the CSV
LoadedStill5 ==
    /\ csvPositions # Null
    /\ DOMAIN csvPositions = {"P01"}
    /\ Len(csvPositions["P01"]) = 6
    /\ \A i \in 1..6 : csvPositions["P01"][i].tSec = i - 1

\* C8: on the track of five STILL intervals played from its start, a step
\* at playback time t >= 1 leaves the magnitude above the baseline, at
\* baseline + rate x t
C8_StillRunGrows ==
    (LoadedStill5 /\ Stepped /\ stepLog.t >= 1) =>
        /\ "P01" \in DOMAIN dwellStates
        /\ dwellStates["P01"].ringDiameterPx > DWELL_DEFAULT_DIAM_PX
        /\ dwellStates["P01"].ringDiameterPx =
               DWELL_DEFAULT_DIAM_PX + DWELL_GROW_DIAM_PER_SEC * stepLog.t

-----------------------------------------------------------------------------
(* STILL or MOVING for one interval: by the label of its first sample
   (part_006) and by the position test of UnifiedDwell.tsx.  Angles are
   whole degrees, radii are thousandths. *)

\* ANGLE_EPS = 0.5 degrees, counted in half degrees
ANGLE_EPS_HALVES == 1
\* RADIUS_EPS = 0.002, counted in thousandths
RADIUS_EPS == 2

Abs(x) == IF x < 0 THEN 0 - x ELSE x

RECURSIVE WrapDown(_)
\* while (diff > 180) diff -= 360
WrapDown(diff) == IF diff > 180 THEN WrapDown(diff - 360) ELSE diff

RECURSIVE WrapUp(_)
\* while (diff < -180) diff += 360
WrapUp(diff) == IF diff < 0 - 180 THEN WrapUp(diff + 360) ELSE diff

shortestAngularDelta(a, b) == WrapUp(WrapDown(a - b))

\* sample.field ?? 0
OrZero(r, f) == IF Has(r, f) THEN r[f] ELSE 0

intervalStill(sampleA, sampleB) ==
    LET dAng == Abs(shortestAngularDelta(OrZero(sampleA, "angleDeg"),
                                         OrZero(sampleB, "angleDeg")))
        dRad == Abs(OrZero(sampleB, "radiusFactor") - OrZero(sampleA, "radiusFactor"))
    IN  2 * dAng <= ANGLE_EPS_HALVES /\ dRad <= RADIUS_EPS

ClassifyAngles == {0, 1, 359}
ClassifyRadii == {500, 502, 503}
ClassifyTimes == {0, 5, 10}

\* two samples, at 0 s and 10 s; the second one carries no label
ClassifyTracks ==
    {<<TrackRow(0, lab) @@ [angleDeg |-> aA, radiusFactor |-> rA],
       [tSec |-> 10, angleDeg |-> aB, radiusFactor |-> rB]>> :
        lab \in TrackLabels, aA \in ClassifyAngles, aB \in ClassifyAngles,
        rA \in ClassifyRadii, rB \in ClassifyRadii}

\* part_006: the motion of the interval that getIntervalMotion returns
ClassifyByLabel ==
    /\ query = NoQuery
    /\ \E t \in ClassifyTimes :
          query' = [fn |-> "getIntervalMotion", t |-> t,
                    res |-> getIntervalMotion("P01", t, csvPositions)]
    /\ UNCHANGED resolveRest

\* UnifiedDwell.tsx: intervalStill of the bracketing samples
ClassifyByThreshold ==
    /\ query = NoQuery
    /\ \E t \in ClassifyTimes :
          LET br == bracketSamples("P01", t, csvPositions)
          IN  query' = [fn |-> "intervalStill", t |-> t,
                        res |-> [still |-> IF br = NoInterval THEN FALSE
                                           ELSE intervalStill(br.A, br.B)]]
    /\ UNCHANGED resolveRest

InitClassify ==
    /\ timeSec = 0 /\ speed = 1 /\ durationSec = 300
    /\ peopleAtTime = <<>> /\ lastOp = [op |-> "create"]
    /\ csvPositions \in {[id \in {"P01"} |-> tr] : tr \in ClassifyTracks}
    /\ InitFrame /\ InitDwell
    /\ query = NoQuery

NextClassify == ClassifyByLabel \/ ClassifyByThreshold

SpecClassify == InitClassify /\ [][NextClassify]_vars

\* the classification the last call gave
Classified ==
    IF query.fn = "getIntervalMotion" THEN query.res.motion
    ELSE IF query.res.still THEN Str_STILL ELSE Str_MOVING

\* the shorter way round from angle a to angle b, in degrees
ArcBetween(a, b) == Min((a - b) % 360, (b - a) % 360)

\* C11: when sample A has no motion label, the interval (A, B) is STILL
\* exactly when the shortest-arc angle difference of A and B is at most
\* 0.5 degrees and their radius difference is at most 0.002
C11_ThresholdWithoutLabel ==
    (/\ query.fn \in {"getIntervalMotion", "intervalStill"}
     /\ ~Has(QTrack[1], "motion")
     /\ QTrack[1].tSec <= query.t /\ query.t < QTrack[2].tSec) =>
        (Classified = Str_STILL <=>
            /\ 2 * ArcBetween(QTrack[1].angleDeg, QTrack[2].angleDeg) <= 1
            /\ Abs(QTrack[2].radiusFactor - QTrack[1].radiusFactor) <= 2)

-----------------------------------------------------------------------------
(* Lifecycle of UnifiedColors (part_011): the enter and exit tweens that
   `animate` advances for every person of peopleAtTime.  Frame time is
   counted in hundredths of a second, radii in thousandths, opacity in
   thousandths. *)

\* enterTween.dur = 0.35 s
ENTER_DUR == 35
\* exitTween.dur = 0.6 s
EXIT_DUR == 60
\* a frame is used when 0 < dtSec < 0.1
FRAME_GATE == 10
\* exitTween.toR = 1.06, and the least enter start radius
EDGE_R == 1060
\* the enter start radius is at least currentRadiusFactor + 0.12
ENTER_LEAD == 120

\* { life: 'entering' }
NewAnim == [life |-> "entering"]

Without(r, f) == [g \in DOMAIN r \ {f} |-> r[g]]

With(r, f, v) == [g \in DOMAIN r \cup {f} |-> IF g = f THEN v ELSE r[g]]

Cube(x) == x * x * x

\* 1 - Math.pow(1 - k, 3) with k = t / dur
easeOutCubic(t, dur) == 1000 - (Cube(dur - t) * 1000) \div Cube(dur)

\* variant: the exit branch leaves the enterTween on the entry
StartExit_keepsEnter(anim, person) ==
    With(With(anim, "life", "exiting"), "exitTween",
         [fromR |-> person.currentRadiusFactor, toR |-> EDGE_R, t |-> 0,
          opacity |-> 1000])

\* the exit branch: life becomes exiting with a new exitTween
StartExit(anim, person) ==
    With(Without(With(anim, "life", "exiting"), "enterTween"), "exitTween",
         [fromR |-> person.currentRadiusFactor, toR |-> EDGE_R, t |-> 0,
          opacity |-> 1000])

\* variant: the enter tween stops one step short of its duration
AdvanceEnter_neverDone(anim, person, dtSec) ==
    LET tw == IF Has(anim, "enterTween") THEN anim.enterTween
              ELSE [fromR |-> Max(EDGE_R, person.currentRadiusFactor + ENTER_LEAD),
                    toR |-> person.currentRadiusFactor, t |-> 0, opacity |-> 0]
        t1 == Min(tw.t + dtSec, ENTER_DUR - 1)
    IN  With(anim, "enterTween",
             [fromR |-> tw.fromR, toR |-> person.currentRadiusFactor,
              t |-> t1, opacity |-> easeOutCubic(t1, ENTER_DUR)])

\* the enter branch: the tween is made when missing, advanced by dtSec, and
\* finished when its time reaches the duration
AdvanceEnter(anim, person, dtSec) ==
    LET tw == IF Has(anim, "enterTween") THEN anim.enterTween
              ELSE [fromR |-> Max(EDGE_R, person.currentRadiusFactor + ENTER_LEAD),
                    toR |-> person.currentRadiusFactor, t |-> 0, opacity |-> 0]
        t1 == Min(tw.t + dtSec, ENTER_DUR)
    IN  IF t1 >= ENTER_DUR
        THEN Without(With(anim, "life", "active"), "enterTween")
        ELSE With(anim, "enterTween",
                  [fromR |-> tw.fromR, toR |-> person.currentRadiusFactor,
                   t |-> t1, opacity |-> easeOutCubic(t1, ENTER_DUR)])

\* the exiting branch: the exit tween advanced, gone when it is over
AdvanceExit(anim, dtSec) ==
    LET t1 == Min(anim.exitTween.t + dtSec, EXIT_DUR)
        tw == [anim.exitTween EXCEPT !.t = t1,
                                     !.opacity = 1000 - (t1 * 1000) \div EXIT_DUR]
    IN  With(With(anim, "exitTween", tw), "life",
             IF t1 >= EXIT_DUR THEN "gone" ELSE anim.life)

\* the body of peopleAtTime.forEach for one person
animateOne(anim, person, dtSec) ==
    LET isExiting == person.currentRadiusFactor > RadiusOne
    IN  IF isExiting /\ anim.life # "exiting" /\ anim.life # "gone"
        THEN StartExit(anim, person)
        ELSE IF ~isExiting /\ anim.life = "entering"
        THEN AdvanceEnter(anim, person, dtSec)
        ELSE IF anim.life = "exiting" /\ Has(anim, "exitTween")
        THEN AdvanceExit(anim, dtSec)
        ELSE anim

RECURSIVE animatePeople(_, _, _)
\* next after the forEach over people
animatePeople(next, people, dtSec) ==
    IF people = <<>> THEN next
    ELSE LET person == Head(people)
             anim == IF person.id \in DOMAIN next THEN next[person.id] ELSE NewAnim
             set == With(next, person.id, animateOne(anim, person, dtSec))
         IN  animatePeople(set, Tail(people), dtSec)

\* 'Remove gone people'
removeGone(next) ==
    [id \in {i \in DOMAIN next : next[i].life # "gone"} |-> next[id]]

\* the state setAnimations commits for one frame
animate(prev, people, dtSec) ==
    IF dtSec > 0 /\ dtSec < FRAME_GATE
    THEN removeGone(animatePeople(prev, people, dtSec))
    ELSE prev

\* the person of peopleAtTime with this id, <<>> when there is none
PersonOf(people, id) == SelectSeq(people, LAMBDA p : p.id = id)

\* render: the person is drawn unless its entry says gone
Rendered(people, anims, id) ==
    /\ PersonOf(people, id) # <<>>
    /\ PersonOf(people, id)[1].isVisible
    /\ ~(id \in DOMAIN anims /\ anims[id].life = "gone")

\* P01 walks from the rim seat out of the room between 0 s and 4 s
Rows_Exit ==
    <<RowAt("P01", <<"0">>, <<>>, 90, 920), RowAt("P01", <<"4">>, <<>>, 90, 1080)>>

\* P01 starts on the boundary and leaves
Rows_Edge ==
    <<RowAt("P01", <<"0">>, <<>>, 90, 1000), RowAt("P01", <<"2">>, <<>>, 90, 1080)>>

LifeCsvs == {Rows_Exit, Rows_Edge}

MaxLifeT == 4

FrameDts == {0, 5, 9, 10}

lifeRest ==
    <<frameVars, csvNormalized, dwellStates, enterLog, stepLog, drive, query,
      schedule, lastFrameTime, drawn>>

LifeLoad ==
    /\ \E rows \in LifeCsvs : LoadCSVData(rows)
    /\ UNCHANGED <<lifeRest, animations>>

\* a scrub of the clock
LifeSetTime ==
    /\ csvPositions # Null
    /\ \E t \in 0..MaxLifeT : SetTime(t)
    /\ UNCHANGED <<lifeRest, animations>>

\* one animation frame of UnifiedColors, dtSec after the frame before
LifeFrame ==
    /\ csvPositions # Null
    /\ \E dtSec \in FrameDts : animations' = animate(animations, peopleAtTime, dtSec)
    /\ UNCHANGED <<storeVars, lifeRest>>

InitLife == InitStore /\ InitFrame /\ InitDwell /\ query = NoQuery

NextLife == LifeLoad \/ LifeSetTime \/ LifeFrame

SpecLife == InitLife /\ [][NextLife]_vars


\* the phase an entry is in, "none" when the map has no entry
LifeOf(anims, id) == IF id \in DOMAIN anims THEN anims[id].life ELSE "none"

\* C13: every phase change of a lifecycle entry is entering->active,
\* active->exiting or exiting->gone (the entry of a gone entity is removed
\* in the frame that ends its exit); an entry is made in phase entering, and
\* no phase is skipped or gone back to
C13_PhasesForward ==
    [][\A id \in PersonIds :
          \/ LifeOf(animations', id) = LifeOf(animations, id)
          \/ <<LifeOf(animations, id), LifeOf(animations', id)>> \in
                {<<"none", "entering">>, <<"entering", "active">>,
                 <<"active", "exiting">>, <<"exiting", "gone">>,
                 <<"exiting", "none">>}]_vars


\* the person is in peopleAtTime with a radius above 1.0
Outside(people, id) ==
    /\ PersonOf(people, id) # <<>>
    /\ PersonOf(people, id)[1].currentRadiusFactor > RadiusOne

\* C14: an active entity whose radius exceeds 1.0 goes to exiting, and when
\* its exit is over and its entry is gone the entity is no longer drawn
\* while its radius stays above 1.0
C14_ExitEndsAbsent ==
    [][\A id \in PersonIds :
          /\ (/\ LifeOf(animations, id) = "active"
              /\ Outside(peopleAtTime, id)
              /\ animations' # animations)
                 => LifeOf(animations', id) = "exiting"
          /\ (/\ LifeOf(animations, id) = "exiting"
              /\ LifeOf(animations', id) \in {"gone", "none"}
              /\ Outside(peopleAtTime', id))
                 => ~Rendered(peopleAtTime', animations', id)]_vars


\* a frame whose dtSec passes the gate
LifeFrameUsed ==
    /\ csvPositions # Null
    /\ \E dtSec \in {d \in FrameDts : d > 0 /\ d < FRAME_GATE} :
          animations' = animate(animations, peopleAtTime, dtSec)
    /\ UNCHANGED <<storeVars, lifeRest>>

\* requestAnimationFrame keeps calling animate
SpecLifeFair == SpecLife /\ WF_vars(LifeFrameUsed)

\* the person is in peopleAtTime with a radius of at most 1.0
Inside(people, id) ==
    /\ PersonOf(people, id) # <<>>
    /\ PersonOf(people, id)[1].currentRadiusFactor <= RadiusOne

\* C15: an entity first seen inside the boundary gets an entry in phase
\* entering; the entry's enter time stays below the enter duration, and
\* while the entity stays inside and frames keep coming the entry becomes
\* active: it does not stay entering for ever
C15_EnterCompletes ==
    /\ [][\A id \in PersonIds :
             (/\ LifeOf(animations, id) = "none"
              /\ Inside(peopleAtTime, id)
              /\ animations' # animations)
                 => LifeOf(animations', id) = "entering"]_vars
    /\ [](\A id \in PersonIds :
             LifeOf(animations, id) = "entering" =>
                 /\ Has(animations[id], "enterTween")
                 /\ animations[id].enterTween.t > 0
                 /\ animations[id].enterTween.t < ENTER_DUR)
    /\ \A id \in PersonIds :
          (LifeOf(animations, id) = "entering" /\ Inside(peopleAtTime, id))
              ~> (LifeOf(animations, id) = "active" \/ ~Inside(peopleAtTime, id))

C15_Witness ==
    /\ LifeOf(animations, "P01") = "active"
    /\ Inside(peopleAtTime, "P01")
    /\ ~Has(animations["P01"], "enterTween")


\* C16: an entry that reaches gone is removed in the same frame, so the
\* map never holds a gone entry; an entry made for an entity that has none
\* is a new one in phase entering whose enter time has run from 0 for this
\* frame only, with nothing of an exit in it
C16_GoneRemovedFreshEntry ==
    [][\A id \in PersonIds :
          /\ LifeOf(animations', id) # "gone"
          /\ (LifeOf(animations, id) = "none" /\ LifeOf(animations', id) # "none") =>
                 /\ animations'[id].life = "entering"
                 /\ Has(animations'[id], "enterTween")
                 /\ animations'[id].enterTween.t \in FrameDts
                 /\ animations'[id].enterTween.t < FRAME_GATE
                 /\ ~Has(animations'[id], "exitTween")]_vars


\* C17: a step taken at a time smaller than the time of the step before it
\* (scrub back, reset to 0) starts every entity from the baseline: after it
\* no magnitude exceeds the baseline plus this one step's growth
C17_BackwardJumpResets ==
    [][(pc' = "stepped" /\ timeSec' < timeSec) =>
           \A id \in DOMAIN csvPositions :
               ringDiameter(dwellStates', id) <=
                   DWELL_DEFAULT_DIAM_PX + DWELL_GROW_DIAM_PER_SEC * stepLog'.dtSec]_vars


-----------------------------------------------------------------------------
(* loadCSVData on texts of a few rows, the text kept beside its result *)

MaxRows == 3

NoteRow(id, t, note) == [Row(id, t, <<>>) EXCEPT !.notes = note]

\* rows in and out of order, with equal times, without an id, without a
\* time, and with a time cell that is no number or only starts as one
ParseRows ==
    {NoteRow("P01", <<"1">>, "a"), NoteRow("P01", <<"1">>, "b"),
     NoteRow("P01", <<"2">>, "a"), NoteRow("P01", <<"0">>, "b"),
     NoteRow("P02", <<"1">>, "a"), NoteRow("", <<"1">>, "a"),
     NoteRow("P01", <<>>, "a"), NoteRow("P01", <<"x">>, "a"),
     NoteRow("P01", <<"2", "x">>, "b"), NoteRow("P02", <<"-">>, "a")}

ParseTexts == UNION {[1..n -> ParseRows] : n \in 0..MaxRows}

\* one call per behaviour: what loadCSVData sets depends on its argument
\* alone, not on the table it replaces
ParseLoad ==
    /\ query = NoQuery
    /\ \E rows \in ParseTexts :
        /\ LoadCSVData(rows)
        /\ query' = [fn |-> "loadCSVData", rows |-> rows]
        /\ UNCHANGED <<frameVars, dwellVars>>

InitParse == InitStore /\ InitFrame /\ InitDwell /\ query = NoQuery

NextParse == ParseLoad

SpecParse == InitParse /\ [][NextParse]_vars

Parsed == query.fn = "loadCSVData"

\* the samples of id in the table, none when the table has no such key
TrackOf(csv, id) == IF csv # Null /\ id \in DOMAIN csv THEN csv[id] ELSE <<>>

\* C18: the parse ends with a table whatever the rows are; each entity's
\* track has exactly one sample per well-formed row of that entity, and a
\* row without an id or with a missing or non-numeric tSec adds nothing.
\* A tSec cell is numeric when it is an optional sign followed by digits
\* and nothing else.
C18_SkipsExactlyMalformed ==
    LET IsNumeric(text) ==
            LET s == Trim(text)
                body == IF s # <<>> /\ Head(s) \in {"-", "+"} THEN Tail(s) ELSE s
            IN  body # <<>> /\ \A i \in 1..Len(body) : IsDigit(body[i])
        WellFormed(row) == row.personId # "" /\ IsNumeric(row.tSec)
    IN  Parsed =>
            /\ csvPositions # Null
            /\ \A id \in DOMAIN csvPositions : id # ""
            /\ \A id \in PersonIds :
                   Len(TrackOf(csvPositions, id)) =
                       Cardinality({i \in 1..Len(query.rows) :
                                       /\ WellFormed(query.rows[i])
                                       /\ query.rows[i].personId = id})

\* the samples of a track whose time is t, in the track's order
AtTime(track, t) == SelectSeq(track, LAMBDA s : s.tSec = t)

\* C19: after parsing every entity's track is in non-decreasing order of
\* tSec, and the samples of one tSec stand in the order of their rows
C19_SortedStable ==
    Parsed =>
        \A id \in DOMAIN csvPositions :
            LET track == csvPositions[id]
                pushed == SamplesFor(query.rows, id)
            IN  /\ \A i \in 1..(Len(track) - 1) : track[i].tSec <= track[i + 1].tSec
                /\ Len(track) = Len(pushed)
                /\ \A i \in 1..Len(pushed) :
                       AtTime(track, pushed[i].tSec) = AtTime(pushed, pushed[i].tSec)

\* rows given out of order with two different samples of one tSec, sorted
C19_Witness ==
    /\ Parsed
    /\ "P01" \in DOMAIN csvPositions
    /\ SamplesFor(query.rows, "P01") # csvPositions["P01"]
    /\ \E i \in 1..(Len(csvPositions["P01"]) - 1) :
          /\ csvPositions["P01"][i].tSec = csvPositions["P01"][i + 1].tSec
          /\ csvPositions["P01"][i] # csvPositions["P01"][i + 1]


-----------------------------------------------------------------------------
(* interpolateCSVPosition between two samples of normalized angles *)

MaxSpan == 4

\* every tenth degree, and the degrees next to the seam and to the half turn
InterpAngles == {10 * k : k \in 0..35} \cup {1, 179, 180, 181, 359}

InterpSpans == {2, MaxSpan}

AngleSample(t, angle) == [tSec |-> t, angleDeg |-> angle]

\* one call per behaviour, at a time between the two samples
InterpCall ==
    /\ query = NoQuery
    /\ \E A \in InterpAngles, B \in InterpAngles, tB \in InterpSpans :
        \E t \in 0..tB :
            /\ query' = [fn |-> "interpolateCSVPosition",
                         before |-> AngleSample(0, A), after |-> AngleSample(tB, B),
                         t |-> t,
                         result |-> interpolateCSVPosition(AngleSample(0, A),
                                                           AngleSample(tB, B), t)]
            /\ UNCHANGED <<storeVars, frameVars, dwellVars>>

InitInterp == InitStore /\ InitFrame /\ InitDwell /\ query = NoQuery

NextInterp == InterpCall

SpecInterp == InitInterp /\ [][NextInterp]_vars

Interpolated == query.fn = "interpolateCSVPosition"

\* the length of the shorter of the two arcs between the angles x and y
ArcLen(x, y) == Min(normalizeAngle(x - y), normalizeAngle(y - x))

\* C20: the interpolated angle lies in [0, 360) and on a shortest arc from
\* A to B, at the ratio's share of that arc (to the whole degree); from
\* 350 to 10 and from 10 to 350 the ratio 0.5 gives 0
C20_ShortestArc ==
    Interpolated =>
        LET A == query.before.angleDeg
            B == query.after.angleDeg
            den == query.after.tSec
            num == query.t
            R == query.result.angleDeg
        IN  /\ R >= 0 /\ R < 360
            /\ ArcLen(A, R) + ArcLen(R, B) = ArcLen(A, B)
            /\ Abs(ArcLen(A, R) * den - ArcLen(A, B) * num) < den
            /\ ({A, B} = {350, 10} /\ 2 * num = den) => R = 0

\* the angle halfway from 350 to 10 was computed, through the seam
C20_Witness ==
    /\ Interpolated
    /\ query.before.angleDeg = 350
    /\ query.after.angleDeg = 10
    /\ 2 * query.t = query.after.tSec
    /\ query.result.angleDeg = 0


\* the shortest distance between the angles of the interpolated pair
QueryDist == shortestAngleDist(query.before.angleDeg, query.after.angleDeg)

\* C21 as stated: for A and B in [0, 360) the signed shortest delta from A
\* to B lies in (-180, 180] and is congruent to B - A modulo 360
C21_AsStated ==
    Interpolated =>
        /\ QueryDist > -180 /\ QueryDist <= 180
        /\ (QueryDist - (query.after.angleDeg - query.before.angleDeg)) % 360 = 0

\* C21: for A and B in [0, 360) the signed shortest delta from A to B lies
\* in [-180, 180), a half turn being -180, and is congruent to B - A
\* modulo 360
C21_DeltaRange ==
    Interpolated =>
        /\ QueryDist >= -180 /\ QueryDist < 180
        /\ (QueryDist - (query.after.angleDeg - query.before.angleDeg)) % 360 = 0
        /\ Abs(query.after.angleDeg - query.before.angleDeg) = 180 => QueryDist = -180

\* the delta of a half turn was computed, from the smaller angle upwards
C21_Witness ==
    /\ Interpolated
    /\ query.after.angleDeg - query.before.angleDeg = 180
    /\ QueryDist = -180


-----------------------------------------------------------------------------
(* The store on tables whose rows may have an empty angleDeg or             *)
(* radiusFactor cell                                                        *)

MaxMissT == 4

CoordCells == {<<>>, <<90>>, <<180>>}
RadiusCells == {<<>>, <<500>>}

\* a row of P01 whose coordinate cells are given as optional values
CellRow(t, angle, radius) ==
    Row("P01", t, <<>>)
    @@ (IF angle # <<>> THEN [angleDeg |-> angle[1]] ELSE <<>>)
    @@ (IF radius # <<>> THEN [radiusFactor |-> radius[1]] ELSE <<>>)

MissTexts ==
    {<<CellRow(<<"0">>, a1, r1), CellRow(<<"4">>, a2, r2)>> :
        a1 \in CoordCells, a2 \in CoordCells, r1 \in RadiusCells, r2 \in RadiusCells}

MissLoad ==
    \E rows \in MissTexts :
        /\ csvPositions = Null
        /\ LoadCSVData(rows)
        /\ UNCHANGED <<frameVars, dwellVars, query>>

MissSetTime ==
    \E t \in 0..MaxMissT : SetTime(t) /\ UNCHANGED <<frameVars, dwellVars, query>>

InitMiss == InitStore /\ InitFrame /\ InitDwell /\ query = NoQuery

NextMiss == MissLoad \/ MissSetTime

SpecMiss == InitMiss /\ [][NextMiss]_vars

\* the ids of the people in the snapshot
VisibleIds == {peopleAtTime[i].id : i \in 1..Len(peopleAtTime)}

\* C22: at a time strictly between two samples of which one lacks angleDeg
\* (or radiusFactor), the interpolated sample has no value for that
\* coordinate, and the entity is not in the rendered set
C22_MissingStaysMissing ==
    (csvPositions # Null /\ "P01" \in DOMAIN csvPositions
        /\ Len(csvPositions["P01"]) = 2
        /\ csvPositions["P01"][1].tSec < timeSec
        /\ timeSec < csvPositions["P01"][2].tSec) =>
        LET before == csvPositions["P01"][1]
            after == csvPositions["P01"][2]
            result == interpolateCSVPosition(before, after, timeSec)
        IN  /\ (~Has(before, "angleDeg") \/ ~Has(after, "angleDeg")) =>
                   /\ ~Has(result, "angleDeg")
                   /\ "P01" \notin VisibleIds
            /\ (~Has(before, "radiusFactor") \/ ~Has(after, "radiusFactor")) =>
                   /\ ~Has(result, "radiusFactor")
                   /\ "P01" \notin VisibleIds


-----------------------------------------------------------------------------
(* The JSON motion schedule of UnifiedDwell.tsx: a list of intervals, each  *)
(* with the list of the ids that are STILL in it.  Ids are sequences of     *)
(* characters.                                                              *)

canonicalId(id) == ToUpperCase(Trim(id))

\* the index of the interval getCurrentInterval returns, 0 for null
CurrentIndex(t, sched) ==
    LET hits == {i \in 1..Len(sched) : t >= sched[i].tA /\ t < sched[i].tB}
    IN  IF hits # {} THEN CHOOSE i \in hits : \A j \in hits : i <= j
        ELSE Len(sched)

\* variant: intervals closed on the right, open on the left
getCurrentInterval_rightClosed(t, sched) ==
    LET hits == {i \in 1..Len(sched) : t > sched[i].tA /\ t <= sched[i].tB}
    IN  IF hits # {} THEN sched[CHOOSE i \in hits : \A j \in hits : i <= j]
        ELSE IF sched # <<>> THEN sched[Len(sched)] ELSE NoInterval

getCurrentInterval(t, sched) ==
    IF CurrentIndex(t, sched) = 0 THEN NoInterval
    ELSE sched[CurrentIndex(t, sched)]

isPersonStill(personId, interval) ==
    IF interval = NoInterval THEN FALSE
    ELSE \E k \in 1..Len(interval.STILL) :
             canonicalId(interval.STILL[k]) = canonicalId(personId)

MaxSchedT == 10

Id_P01 == <<"P", "0", "1">>
Id_p01 == <<"p", "0", "1">>
Id_P01_padded == <<" ", "P", "0", "1", " ">>
Id_P02 == <<"P", "0", "2">>

RawIds == {Id_P01, Id_p01, Id_P01_padded, Id_P02}

StillLists == {<<>>, <<Id_P01>>, <<Id_P01_padded>>, <<Id_P02, Id_p01>>}

\* two intervals: adjoining, with a gap between them, or overlapping
SecondStarts == {5, 7, 3}

Schedules ==
    {<<>>}
    \cup {<<[tA |-> 0, tB |-> 5, STILL |-> l1], [tA |-> a, tB |-> MaxSchedT - 1, STILL |-> l2]>> :
             l1 \in StillLists, l2 \in StillLists, a \in SecondStarts}

\* one lookup per behaviour
LookupSchedule ==
    /\ query = NoQuery
    /\ \E sched \in Schedules, t \in 0..MaxSchedT, id \in RawIds :
          query' = [fn |-> "isPersonStill", schedule |-> sched, t |-> t,
                    personId |-> id,
                    interval |-> getCurrentInterval(t, sched),
                    still |-> isPersonStill(id, getCurrentInterval(t, sched))]
    /\ UNCHANGED <<storeVars, frameVars, dwellVars>>

InitSchedule == InitStore /\ InitFrame /\ InitDwell /\ query = NoQuery

NextSchedule == LookupSchedule

SpecSchedule == InitSchedule /\ [][NextSchedule]_vars

ScheduleAsked == query.fn = "isPersonStill"

\* C23: when the schedule has an interval with tA <= t < tB the lookup
\* returns it (the first listed one), so at a boundary time it returns the
\* interval that starts there; the entity is STILL exactly when its
\* trimmed, upper-cased id is the trimmed, upper-cased form of an id of
\* that interval's STILL list
C23_ScheduleLookup ==
    ScheduleAsked =>
        LET sch == query.schedule
            t == query.t
            iv == query.interval
            holds(i) == sch[i].tA <= t /\ t < sch[i].tB
        IN  /\ (\E i \in 1..Len(sch) : holds(i)) =>
                   /\ iv # NoInterval
                   /\ iv.tA <= t /\ t < iv.tB
                   /\ \E i \in 1..Len(sch) :
                          /\ iv = sch[i] /\ holds(i)
                          /\ \A j \in 1..(i - 1) : ~holds(j)
            /\ (\E i \in 1..Len(sch) : sch[i].tA = t /\ \A j \in 1..Len(sch) : holds(j) => j = i) =>
                   iv.tA = t
            /\ iv # NoInterval =>
                   (query.still <=>
                       \E k \in 1..Len(iv.STILL) :
                           ToUpperCase(Trim(iv.STILL[k])) = ToUpperCase(Trim(query.personId)))
            /\ iv = NoInterval => ~query.still

\* at the boundary of two adjoining intervals the second was returned, and
\* a padded id was found STILL through a lower-case entry of its list
C23_Witness ==
    /\ ScheduleAsked
    /\ Len(query.schedule) = 2
    /\ query.t = query.schedule[1].tB
    /\ query.t = query.schedule[2].tA
    /\ query.interval = query.schedule[2]
    /\ query.personId = Id_P01_padded
    /\ query.interval.STILL = <<Id_P02, Id_p01>>
    /\ query.still


-----------------------------------------------------------------------------
(* The dwell layer of UnifiedDwell.tsx (JSON schedule): updateDwellLayer    *)
(* and the effect that calls it.  Its Map dwellStates is keyed by           *)
(* canonical ids, which are sequences of characters.                        *)

DWELL_DEFAULT_DIAM == 10
DWELL_GROW_DIAM_PS == 10

\* a store id as the characters of its string
IdChars(id) == IF id = "P01" THEN Id_P01 ELSE IF id = "P02" THEN Id_P02 ELSE <<>>

\* Object.keys of an array: the indices "0", "1", ... as strings
ArrayKeys(arr) == [i \in 1..Len(arr) |-> <<Digits[i]>>]

\* Map.set
MapSet(m, k, v) == [x \in DOMAIN m \cup {k} |-> IF x = k THEN v ELSE m[x]]

\* one pass of the loop body of updateDwellLayer for rawId
updateDwellOne(states, rawId, interval, dtSec) ==
    LET id == canonicalId(rawId)
        intervalKey == <<interval.tA, interval.tB>>
        s0 == IF id \in DOMAIN states THEN states[id]
              ELSE [diamPx |-> DWELL_DEFAULT_DIAM]
        isStill == isPersonStill(rawId, interval)
        entered == ~Has(s0, "lastIntervalKey") \/ s0.lastIntervalKey # intervalKey
        d1 == IF entered /\ ~isStill THEN DWELL_DEFAULT_DIAM ELSE s0.diamPx
        d2 == IF isStill THEN d1 + DWELL_GROW_DIAM_PS * dtSec ELSE DWELL_DEFAULT_DIAM
    IN  MapSet(states, id, [lastIntervalKey |-> intervalKey, diamPx |-> d2])

RECURSIVE updateDwellEach(_, _, _, _)
updateDwellEach(states, personIds, interval, dtSec) ==
    IF personIds = <<>> THEN states
    ELSE updateDwellEach(updateDwellOne(states, Head(personIds), interval, dtSec),
                         Tail(personIds), interval, dtSec)

updateDwellLayer(states, t, dtSec, sched, personIds) ==
    IF getCurrentInterval(t, sched) = NoInterval THEN states
    ELSE updateDwellEach(states, personIds, getCurrentInterval(t, sched), dtSec)

\* render: the diameter drawn for a person of peopleAtTime
layerRingDiameter(states, id) ==
    IF canonicalId(IdChars(id)) \in DOMAIN states
       /\ states[canonicalId(IdChars(id))].diamPx # 0
    THEN states[canonicalId(IdChars(id))].diamPx ELSE DWELL_DEFAULT_DIAM

\* P01 is there from 0 s, P02 from 2 s, both to 6 s
Rows_Two ==
    <<RowAt("P01", <<"0">>, <<>>, 0, 500), RowAt("P01", <<"6">>, <<>>, 0, 500),
      RowAt("P02", <<"2">>, <<>>, 90, 500), RowAt("P02", <<"6">>, <<>>, 90, 500)>>

LayerSchedules ==
    {<<[tA |-> 0, tB |-> 3, STILL |-> <<Id_P01>>],
       [tA |-> 3, tB |-> 6, STILL |-> <<Id_P01, Id_P02>>]>>,
     <<[tA |-> 0, tB |-> 6, STILL |-> <<Id_P02>>]>>}

LayerDeltas == {1, 2}

layerRest ==
    <<now, tickerVars, tSeen, last, csvNormalized, enterLog, stepLog, drive,
      animations, query>>

\* the CSV arrives: the store's snapshot changes, the component renders
\* again; timeSec is 0 as before, so the update effect does not run
LayerLoad ==
    /\ csvPositions = Null
    /\ pc = "idle"
    /\ LoadCSVData(Rows_Two)
    /\ pc' = "render"
    /\ UNCHANGED <<layerRest, dwellStates, schedule, lastFrameTime, drawn>>

\* the fetch of motion_schedule.json resolves: setSchedule
LayerFetched ==
    /\ schedule = <<>>
    /\ pc = "idle"
    /\ \E sched \in LayerSchedules : schedule' = sched
    /\ pc' = "render+effect"
    /\ UNCHANGED <<layerRest, storeVars, dwellStates, lastFrameTime, drawn>>

\* the ticker advances the store's clock
LayerTick ==
    /\ csvPositions # Null
    /\ pc = "idle"
    /\ \E dt \in LayerDeltas : Tick(dt)
    /\ pc' = IF timeSec' # timeSec THEN "render+effect" ELSE "idle"
    /\ UNCHANGED <<layerRest, dwellStates, schedule, lastFrameTime, drawn>>

\* the component renders: each person of peopleAtTime with the diameter
\* the Map holds for its canonical id, or the default
LayerRender ==
    /\ pc \in {"render", "render+effect"}
    /\ drawn' = [t |-> timeSec,
                 rings |-> [id \in {peopleAtTime[i].id : i \in 1..Len(peopleAtTime)} |->
                               layerRingDiameter(dwellStates, id)]]
    /\ pc' = IF pc = "render" THEN "idle" ELSE "effect"
    /\ UNCHANGED <<layerRest, storeVars, dwellStates, schedule, lastFrameTime>>

\* the update effect, run after the render that saw timeSec, lastFrameTime
\* or schedule change; setLastFrameTime with a new value renders again
LayerEffect ==
    /\ pc = "effect"
    /\ IF schedule = <<>>
       THEN /\ pc' = "idle"
            /\ UNCHANGED <<dwellStates, lastFrameTime>>
       ELSE LET dtSec == IF lastFrameTime > 0 THEN Max(0, timeSec - lastFrameTime) ELSE 0
            IN  /\ lastFrameTime' = timeSec
                /\ dwellStates' = updateDwellLayer(dwellStates, timeSec, dtSec, schedule,
                                                   ArrayKeys(peopleAtTime))
                /\ pc' = IF lastFrameTime' # lastFrameTime THEN "render+effect" ELSE "idle"
    /\ UNCHANGED <<layerRest, storeVars, schedule, drawn>>

InitLayer == InitStore /\ InitFrame /\ InitDwell /\ query = NoQuery

NextLayer == LayerLoad \/ LayerFetched \/ LayerTick \/ LayerRender \/ LayerEffect

SpecLayer == InitLayer /\ [][NextLayer]_vars

\* the update effect has run for the current time and nothing is pending
LayerSettled == pc = "idle" /\ schedule # <<>> /\ csvPositions # Null /\ lastFrameTime = timeSec

\* C24: the dwell update runs for each known entity under that entity's
\* own id: no dwell state is stored under a key that is not an entity id,
\* and once the update has run for the current time every entity of the
\* snapshot has a dwell state under its id
C24_StatesKeyedByEntityId ==
    /\ \A k \in DOMAIN dwellStates : \E id \in PersonIds : k = IdChars(id)
    /\ (LayerSettled /\ timeSec > 0) =>
           \A i \in 1..Len(peopleAtTime) : IdChars(peopleAtTime[i].id) \in DOMAIN dwellStates


-----------------------------------------------------------------------------
(* The store's clock with the scrub helper window.jumpTo that UnifiedDwell  *)
(* installs, and with play and pause                                        *)

\* jumpTo(t): setState({ timeSec: clamped }), nothing else
JumpTo(t) ==
    /\ timeSec' = Max(0, Min(durationSec, t))
    /\ lastOp' = [op |-> "jumpTo", arg |-> t]
    /\ UNCHANGED <<speed, durationSec, csvPositions, peopleAtTime>>

CallJumpTo == \E t \in TimeArgs : JumpTo(t) /\ UNCHANGED clockRest

\* play() and pause(): "No-op, always playing"
Play ==
    /\ lastOp' = [op |-> "play"]
    /\ UNCHANGED <<timeSec, speed, durationSec, csvPositions, peopleAtTime>>

Pause ==
    /\ lastOp' = [op |-> "pause"]
    /\ UNCHANGED <<timeSec, speed, durationSec, csvPositions, peopleAtTime>>

CallPlay == Play /\ UNCHANGED clockRest
CallPause == Pause /\ UNCHANGED clockRest

InitControl == InitStore /\ InitFrame /\ InitDwell /\ query = NoQuery

NextControl ==
    CallSetTime \/ CallTick \/ CallLoadCSVData \/ CallJumpTo \/ CallPlay \/ CallPause

SpecControl == InitControl /\ [][NextControl]_vars

\* C25: after every operation the snapshot is the one computePeopleAtTime
\* yields for the current timeSec and table: no state pairs a timeSec with
\* positions computed for another time
C25_SnapshotMatchesTime ==
    peopleAtTime = computePeopleAtTime(csvPositions, timeSec)

\* C26: a tick that directly follows pause() leaves timeSec as it was, and
\* a tick that directly follows play() moves it by deltaTime * speed, up to
\* the duration
C26_PauseStopsClock ==
    [][/\ (lastOp.op = "pause" /\ lastOp'.op = "tick") => timeSec' = timeSec
       /\ (lastOp.op = "play" /\ lastOp'.op = "tick") =>
              timeSec' = Min(timeSec + lastOp'.arg * speed, durationSec)]_vars


\* C27: a render reads the dwell state only after the update for its
\* timeSec has run: whenever a frame is drawn, the update has already been
\* applied for the frame's time, so the magnitudes drawn are never the
\* ones the previous tick left
C27_UpdateBeforeRender ==
    [][(drawn' # drawn /\ schedule # <<>> /\ csvPositions # Null) =>
           lastFrameTime = drawn'.t]_vars


-----------------------------------------------------------------------------
(* The dwell step of part_006 and the lifecycle frame of part_011 over the  *)
(* same store.  The two callbacks measure their own dtSec: the dwell        *)
(* step's is in whole seconds, the lifecycle frame's in hundredths.         *)

OutRow(t, lab, radius) == TrackRow(t, <<lab>>) @@ [angleDeg |-> 90, radiusFactor |-> radius]

\* P01 sits, then walks out of the room: past the boundary from 3 s
Track_StillThenOut ==
    <<OutRow(0, Str_STILL, 920), OutRow(1, Str_STILL, 920), OutRow(4, Str_MOVING, 1100)>>

\* the same path with the other labels
Track_MovingThenOut ==
    <<OutRow(0, Str_MOVING, 920), OutRow(1, Str_MOVING, 920), OutRow(4, Str_STILL, 1100)>>

BothCsvs == {[id \in {"P01"} |-> tr] : tr \in {Track_StillThenOut, Track_MovingThenOut}}

BothDwellDts == {0, 5}

MaxBothNow == 10

\* one step of the dwell loop at the store's time
BothDwell ==
    /\ csvPositions # Null
    /\ \E dt \in BothDwellDts :
          /\ now + dt <= MaxBothNow
          /\ StepAt(timeSec, dt)

InitBoth ==
    /\ timeSec = 0 /\ speed = 1 /\ durationSec = 4
    /\ csvPositions \in BothCsvs
    /\ peopleAtTime = computePeopleAtTime(csvPositions, timeSec)
    /\ lastOp = [op |-> "loadCSVData"]
    /\ InitFrame /\ InitDwell /\ query = NoQuery

NextBoth == LifeSetTime \/ LifeFrame \/ BothDwell

SpecBoth == InitBoth /\ [][NextBoth]_vars

\* the table with every label turned into the other one
FlipMotion(csv) ==
    [id \in DOMAIN csv |->
        [i \in 1..Len(csv[id]) |->
            [csv[id][i] EXCEPT !.motion =
                IF normalizeMotion(<<@>>) = Str_STILL THEN Str_MOVING ELSE Str_STILL]]]

C29_StatesOnlyForVisible ==
    [][stepLog' # stepLog => DOMAIN dwellStates' \subseteq VisibleIds']_vars


\* C30: a step of the dwell loop, with its lookups and its one-time
\* preparation, leaves every track's samples as they were, and every
\* lookup returns after the step what it returned before it
C30_LookupLeavesTrack ==
    [][pc' = "stepped" =>
           /\ \A id \in PersonIds, t \in DwellTimes :
                  getIntervalMotion(id, t, csvPositions')
                      = getIntervalMotion(id, t, csvPositions)
           /\ csvPositions' = csvPositions]_vars


-----------------------------------------------------------------------------
(* loadCSVData on one row whose angleDeg, radiusFactor and bench cells vary *)

AngleCells == {<<>>, <<0 - 370>>, <<0 - 1>>, <<0>>, <<359>>, <<360>>, <<725>>}
RadiusCells3 == {<<>>, <<500>>, <<1080>>}
BenchCells == {"", "T1", "B2", "EXIT", "X9"}
TimeCells == {<<"0">>, <<"3">>}

BenchRow(t, angle, radius, bench) == [CellRow(t, angle, radius) EXCEPT !.bench = bench]

\* one call per behaviour
CellLoad ==
    /\ query = NoQuery
    /\ \E t \in TimeCells, a \in AngleCells, r \in RadiusCells3, b \in BenchCells :
          /\ LoadCSVData(<<BenchRow(t, a, r, b)>>)
          /\ query' = [fn |-> "loadCSVData", rows |-> <<BenchRow(t, a, r, b)>>]
    /\ UNCHANGED <<frameVars, dwellVars>>

InitCell == InitStore /\ InitFrame /\ InitDwell /\ query = NoQuery

NextCell == CellLoad

SpecCell == InitCell /\ [][NextCell]_vars

-----------------------------------------------------------------------------
(* The snapshot at every time of a table whose radii differ from sample to  *)
(* sample and which has two samples of one tSec                             *)

MaxRatioT == 6

RatioRadii == {500, 700, 900}

\* P01 has samples at 0, 2, 2 and 5 s; P02 at 1 and 3 s
Rows_Ratio(r1, r2) ==
    <<RowAt("P01", <<"0">>, <<>>, 350, 500), RowAt("P01", <<"2">>, <<>>, 10, r1),
      RowAt("P01", <<"2">>, <<>>, 20, r2), RowAt("P01", <<"5">>, <<>>, 90, 600),
      RowAt("P02", <<"1">>, <<>>, 0, r2), RowAt("P02", <<"3">>, <<>>, 0, r1)>>

RatioLoad ==
    /\ csvPositions = Null
    /\ \E r1 \in RatioRadii, r2 \in RatioRadii : LoadCSVData(Rows_Ratio(r1, r2))
    /\ UNCHANGED <<frameVars, dwellVars, query>>

RatioSetTime ==
    /\ csvPositions # Null
    /\ \E t \in (0 - 1)..MaxRatioT : SetTime(t)
    /\ UNCHANGED <<frameVars, dwellVars, query>>

\* a tick of one second forwards or backwards
RatioTick ==
    /\ csvPositions # Null
    /\ \E dt \in {0 - 1, 1} : timeSec + dt >= 0 - 1 /\ Tick(dt)
    /\ UNCHANGED <<frameVars, dwellVars, query>>

InitRatio == InitStore /\ InitFrame /\ InitDwell /\ query = NoQuery

NextRatio == RatioLoad \/ RatioSetTime \/ RatioTick

SpecRatio == InitRatio /\ [][NextRatio]_vars

\* the entry of id in the snapshot
EntryOf(people, id) == people[CHOOSE i \in 1..Len(people) : people[i].id = id]

\* C32: for every entity of the snapshot, with A its last sample at or
\* before timeSec and B its first sample at or after it, the time lies
\* between A.tSec and B.tSec, so the ratio is in [0, 1] and the radius
\* lies between A's and B's; when A.tSec = B.tSec, or there is no B, the
\* entity has A's angle and radius unchanged
C32_RatioInUnitRange ==
    csvPositions # Null =>
        \A id \in VisibleIds :
            LET samples == csvPositions[id]
                bs == {i \in 1..Len(samples) : samples[i].tSec <= timeSec}
                as == {i \in 1..Len(samples) : samples[i].tSec >= timeSec}
                A == samples[CHOOSE i \in bs : \A j \in bs : j <= i]
                B == samples[CHOOSE i \in as : \A j \in as : i <= j]
                entry == EntryOf(peopleAtTime, id)
            IN  /\ bs # {}
                /\ (as # {} /\ A.tSec # B.tSec) =>
                       /\ 0 <= timeSec - A.tSec
                       /\ timeSec - A.tSec <= B.tSec - A.tSec
                       /\ entry.currentRadiusFactor >= Min(A.radiusFactor, B.radiusFactor)
                       /\ entry.currentRadiusFactor <= Max(A.radiusFactor, B.radiusFactor)
                /\ (as = {} \/ A.tSec = B.tSec) =>
                       /\ entry.currentRadiusFactor = A.radiusFactor
                       /\ entry.currentAngleDeg = A.angleDeg

\* P01 is strictly between its samples at 2 s and 5 s, with a radius
\* strictly between theirs, and P02 is past its last sample
C32_Witness ==
    /\ csvPositions # Null
    /\ timeSec = 4
    /\ "P01" \in VisibleIds /\ "P02" \in VisibleIds
    /\ EntryOf(peopleAtTime, "P01").currentRadiusFactor > 600
    /\ EntryOf(peopleAtTime, "P01").currentRadiusFactor < csvPositions["P01"][3].radiusFactor
    /\ EntryOf(peopleAtTime, "P02").currentRadiusFactor = csvPositions["P02"][2].radiusFactor


-----------------------------------------------------------------------------
(* The dwell loop with the frame delta as measured: performance.now() minus *)
(* the loop's `last`, of either sign, clamped by step                       *)

MaxDiam == 60

RawDeltas == {0 - 5, 0, 5, 10}

\* variant: the measured delta is used as it is
ClampDt_unclamped(raw) == raw

\* const dtSec = Math.max(0, (now - last) / 1000)
ClampDt(raw) == Max(0, raw)

\* one run of `step` at time t when the clock has moved by raw since `last`
FloorStep ==
    /\ csvPositions # Null
    /\ \A id \in DOMAIN dwellStates : dwellStates[id].ringDiameterPx <= MaxDiam
    /\ \E t \in DwellTimes, raw \in RawDeltas :
          /\ now + raw >= 0
          /\ now + raw <= MaxNow
          /\ StepBody(t, ClampDt(raw))
          /\ now' = now + raw
          /\ last' = now'
          /\ timeSec' = t
          /\ tSeen' = t
          /\ pc' = "stepped"
          /\ query' = [fn |-> "step", raw |-> raw]
          /\ UNCHANGED <<speed, durationSec, peopleAtTime, lastOp, tickerVars, drive,
                         animations, schedule, lastFrameTime, drawn>>

NextFloor == FloorStep \/ DwellReload

SpecFloor == InitDwellSteps /\ [][NextFloor]_vars

\* C33: every existing dwell state has a diameter of at least the default
C33_MagnitudeAtLeastBaseline ==
    \A id \in DOMAIN dwellStates :
        dwellStates[id].ringDiameterPx >= DWELL_DEFAULT_DIAM_PX

\* a step whose measured delta was negative has just run on a state that
\* had grown in a STILL interval, after the table was replaced
C33_Witness ==
    /\ Stepped
    /\ query.raw < 0 /\ stepLog.dtSec = 0
    /\ "P01" \in DOMAIN stepLog.before
    /\ stepLog.before["P01"].ringDiameterPx > DWELL_DEFAULT_DIAM_PX
    /\ "P01" \in SteppedIds
    /\ SteppedInterval("P01").motion = Str_STILL
    /\ "P02" \in DOMAIN dwellStates /\ "P02" \notin DOMAIN csvPositions


-----------------------------------------------------------------------------
(* The dwell loop on a track with a MOVING interval between two STILL ones  *)

\* STILL 0-10 s, MOVING 10-20 s, STILL 20-30 s
Track_StillMovingStill ==
    <<TypedRow(0, <<Str_STILL>>, 0), TypedRow(10, <<Str_MOVING>>, 0),
      TypedRow(20, <<Str_STILL>>, 90), TypedRow(30, <<Str_STILL>>, 90)>>

InitJump ==
    /\ timeSec = 0 /\ speed = 1 /\ durationSec = 300
    /\ peopleAtTime = <<>> /\ lastOp = [op |-> "create"]
    /\ csvPositions = [id \in {"P01"} |-> Track_StillMovingStill]
    /\ InitFrame
    /\ csvNormalized = FALSE /\ dwellStates = <<>> /\ enterLog = <<>>
    /\ stepLog = <<>>
    /\ drive = "any"
    /\ animations = <<>>
    /\ schedule = <<>>
    /\ lastFrameTime = 0
    /\ drawn = <<>>
    /\ query = NoQuery

NextJump == DwellStepAny

SpecJump == InitJump /\ [][NextJump]_vars

\* some MOVING interval of the track of id lies between the times t1 and t2
MovingBetween(id, t1, t2) ==
    \E i \in 1..(Len(csvPositions[id]) - 1) :
        /\ normalizeMotion(Opt(csvPositions[id][i], "motion")) = Str_MOVING
        /\ Min(t1, t2) <= csvPositions[id][i].tSec
        /\ csvPositions[id][i + 1].tSec <= Max(t1, t2)

\* C34: a step that takes the time of an entity, from a time of 0 or more,
\* across a whole MOVING interval of its track leaves it no growth from
\* before that interval:
\* its diameter is at most the default plus this step's own growth
C34_GrowthFromOneStillRun ==
    [][(pc = "stepped" /\ pc' = "stepped" /\ stepLog.t >= 0 /\ stepLog'.t >= 0) =>
           \A id \in DOMAIN csvPositions :
               MovingBetween(id, stepLog.t, stepLog'.t) =>
                   ringDiameter(dwellStates', id) <=
                       DWELL_DEFAULT_DIAM_PX
                       + DWELL_GROW_DIAM_PER_SEC * stepLog'.dtSec]_vars


-----------------------------------------------------------------------------
(* The playback ticker: startPlaybackTicker, its frame callback and         *)
(* stopPlaybackTicker, with the host's list of animation frame callbacks    *)

MaxTickerNow == 6
MaxHandles == 6

\* requestAnimationFrame(tick): a fresh handle, its callback pending
requestAnimationFrame(host) ==
    [handles |-> host.handles + 1, pending |-> host.pending \cup {host.handles + 1}]

\* cancelAnimationFrame(id)
cancelAnimationFrame(host, id) == [host EXCEPT !.pending = @ \ {id}]

\* variant: a new loop is requested whether or not one is running
startPlaybackTicker_unguarded(id, host) ==
    [rafId |-> host.handles + 1, raf |-> requestAnimationFrame(host)]

\* rafId and the host's callbacks after startPlaybackTicker()
startPlaybackTicker(id, host) ==
    IF id # NoHandle THEN [rafId |-> id, raf |-> host]
    ELSE [rafId |-> host.handles + 1, raf |-> requestAnimationFrame(host)]

\* rafId, lastTickTime and the host's callbacks after stopPlaybackTicker()
stopPlaybackTicker(id, ltt, host) ==
    IF id # NoHandle
    THEN [rafId |-> NoHandle, lastTickTime |-> NoTime,
          raf |-> cancelAnimationFrame(host, id)]
    ELSE [rafId |-> id, lastTickTime |-> ltt, raf |-> host]

tickerRest == <<storeVars, now, tSeen, last, dwellVars, query>>

StartPlaybackTicker ==
    /\ raf.handles < MaxHandles
    /\ rafId' = startPlaybackTicker(rafId, raf).rafId
    /\ raf' = startPlaybackTicker(rafId, raf).raf
    /\ pc' = IF rafId = NoHandle THEN "started" ELSE pc
    /\ UNCHANGED <<lastTickTime, tickerRest>>

StopPlaybackTicker ==
    /\ rafId' = stopPlaybackTicker(rafId, lastTickTime, raf).rafId
    /\ lastTickTime' = stopPlaybackTicker(rafId, lastTickTime, raf).lastTickTime
    /\ raf' = stopPlaybackTicker(rafId, lastTickTime, raf).raf
    /\ pc' = IF rafId # NoHandle THEN "stopped" ELSE pc
    /\ UNCHANGED tickerRest

\* the host runs the pending callback h at the next frame, gap s later
RafTick ==
    /\ raf.handles < MaxHandles
    /\ \E h \in raf.pending, gap \in FrameGaps :
          /\ now + gap <= MaxTickerNow
          /\ now' = now + gap
          /\ Tick(IF lastTickTime = NoTime THEN 0 ELSE now' - lastTickTime)
          /\ lastTickTime' = now'
          /\ raf' = requestAnimationFrame(cancelAnimationFrame(raf, h))
          /\ rafId' = raf.handles + 1
    /\ pc' = "ticked"
    /\ UNCHANGED <<tSeen, last, dwellVars, query>>

\* a frame of the host with no callback to run
RafIdle ==
    /\ raf.pending = {}
    /\ now < MaxTickerNow
    /\ now' = now + 1
    /\ UNCHANGED <<storeVars, tickerVars, pc, tSeen, last, dwellVars, query>>

InitTicker == InitStore /\ InitFrame /\ InitDwell /\ query = NoQuery

NextTicker == StartPlaybackTicker \/ StopPlaybackTicker \/ RafTick \/ RafIdle

SpecTicker == InitTicker /\ [][NextTicker]_vars

\* C35: at most one callback is pending, and it is the one rafId names;
\* with rafId null none is pending; a start while rafId is set changes
\* nothing; the tick that follows a start leaves timeSec as it was
C35_OneLoop ==
    /\ [](/\ Cardinality(raf.pending) <= 1
          /\ rafId = NoHandle => raf.pending = {}
          /\ rafId # NoHandle => raf.pending = {rafId})
    /\ [][(pc = "started" /\ pc' = "ticked") =>
              (lastOp'.arg = 0 /\ timeSec' = timeSec)]_vars

\* the loop was started, ticked, was stopped, time went by while it was
\* stopped, it was started again and has just run its first tick
C35_Witness ==
    /\ pc = "ticked"
    /\ lastOp = [op |-> "tick", arg |-> 0]
    /\ timeSec > 0
    /\ now > timeSec
    /\ raf.handles >= 4
    /\ raf.pending = {rafId}


-----------------------------------------------------------------------------
(* The snapshot of a table whose people leave and come back, with the time  *)
(* set by setTime, tick and the jumpTo helper                               *)

MaxVisT == 5

\* P01 is inside at 0 s, outside at 2 s and inside again at 4 s; P02 comes
\* at 1 s and its sample at 3 s has the bench EXIT
Rows_Return(r) ==
    <<RowAt("P01", <<"0">>, <<>>, 0, 920), RowAt("P01", <<"2">>, <<>>, 0, 1080),
      RowAt("P01", <<"4">>, <<>>, 0, r),
      RowAt("P02", <<"1">>, <<>>, 90, 500),
      [RowAt("P02", <<"3">>, <<>>, 90, 500) EXCEPT !.bench = "EXIT"]>>

VisLoad ==
    /\ csvPositions = Null
    /\ \E r \in {900, 1000, 1010} : LoadCSVData(Rows_Return(r))
    /\ UNCHANGED clockRest

VisSetTime == csvPositions # Null /\ \E t \in 0..MaxVisT : SetTime(t) /\ UNCHANGED clockRest

VisTick ==
    /\ csvPositions # Null
    /\ \E dt \in {0 - 1, 1} : timeSec + dt >= 0 - 1 /\ Tick(dt)
    /\ UNCHANGED clockRest

VisJumpTo == csvPositions # Null /\ \E t \in 0..MaxVisT : JumpTo(t) /\ UNCHANGED clockRest

NextVis == VisLoad \/ VisSetTime \/ VisTick \/ VisJumpTo

SpecVis == InitControl /\ [][NextVis]_vars

\* C36: every entity of the snapshot has a sample at or before timeSec,
\* and the latest of them is not on the bench EXIT and has a radiusFactor
\* of at most 1.0
C36_VisibleOnlyInside ==
    csvPositions # Null =>
        \A id \in VisibleIds :
            LET samples == csvPositions[id]
                bs == {i \in 1..Len(samples) : samples[i].tSec <= timeSec}
                latest == samples[CHOOSE i \in bs : \A j \in bs : j <= i]
            IN  /\ bs # {}
                /\ ~(Has(latest, "bench") /\ latest.bench = "EXIT")
                /\ Has(latest, "radiusFactor")
                /\ latest.radiusFactor <= RadiusOne



\* C37: an exiting entry whose entity is no longer in peopleAtTime is
\* removed while frames keep coming, unless the entity is reported again
C37_ExitingEntryRemoved ==
    \A id \in PersonIds :
        (LifeOf(animations, id) = "exiting" /\ id \notin VisibleIds)
            ~> (LifeOf(animations, id) = "none" \/ id \in VisibleIds)


-----------------------------------------------------------------------------
(* loadCSVData over a table already loaded, on texts with negative times,   *)
(* and with an argument whose parsing throws                                *)

MaxDurT == 5

\* rows with times 2, -3 and 5, a time that is no number, and no id
DurRows ==
    {Row("P01", <<"2">>, <<>>), Row("P01", <<"-", "3">>, <<>>),
     Row("P02", <<"5">>, <<>>), Row("P01", <<"x">>, <<>>), Row("", <<"9">>, <<>>)}

DurTexts == UNION {[1..n -> DurRows] : n \in 0..2}

DurLoad ==
    \E rows \in DurTexts :
        /\ LoadCSVData(rows)
        /\ query' = [fn |-> "loadCSVData", rows |-> rows, threw |-> FALSE]
        /\ UNCHANGED <<frameVars, dwellVars>>

\* csvText.trim() throws (the argument is no string): the catch logs the
\* error, and set() is never reached
DurLoadThrows ==
    /\ lastOp' = [op |-> "loadCSVData"]
    /\ query' = [fn |-> "loadCSVData", rows |-> <<>>, threw |-> TRUE]
    /\ UNCHANGED <<timeSec, speed, durationSec, csvPositions, peopleAtTime,
                   frameVars, dwellVars>>

DurSetTime == \E t \in 0..MaxDurT : SetTime(t) /\ UNCHANGED <<frameVars, dwellVars, query>>

InitDur == InitStore /\ InitFrame /\ InitDwell /\ query = NoQuery

NextDur == DurLoad \/ DurLoadThrows \/ DurSetTime

SpecDur == InitDur /\ [][NextDur]_vars

\* the tSec values of the accepted rows of a text
AcceptedTimes(rows) ==
    {ParseInt(rows[i].tSec).val : i \in {j \in 1..Len(rows) : RowAccepted(rows[j])}}

\* the load that has just returned did not throw
JustLoaded == lastOp.op = "loadCSVData" /\ query.fn = "loadCSVData" /\ ~query.threw

\* C38 as stated: after loadCSVData, durationSec is the largest tSec among
\* the accepted rows, 0 when no row is accepted
C38_AsStated ==
    JustLoaded =>
        durationSec = IF AcceptedTimes(query.rows) = {} THEN 0
                      ELSE CHOOSE m \in AcceptedTimes(query.rows) :
                               \A u \in AcceptedTimes(query.rows) : u <= m

\* C38: after loadCSVData, timeSec is 0 and durationSec is the largest
\* tSec among the accepted rows, but at least 0, so that
\* 0 <= timeSec <= durationSec; a load whose parsing throws leaves timeSec,
\* durationSec and the tracks as they were
C38_DurationAfterLoad ==
    /\ [](JustLoaded =>
            /\ timeSec = 0
            /\ durationSec >= 0
            /\ \A u \in AcceptedTimes(query.rows) : u <= durationSec
            /\ durationSec \in AcceptedTimes(query.rows) \cup {0}
            /\ 0 <= timeSec /\ timeSec <= durationSec)
    /\ [][(query'.fn = "loadCSVData" /\ query'.threw /\ lastOp'.op = "loadCSVData") =>
              /\ timeSec' = timeSec
              /\ durationSec' = durationSec
              /\ csvPositions' = csvPositions]_vars

\* a text with rows at 5 s and 2 s, in this order, has just been loaded
C38_Witness ==
    /\ JustLoaded
    /\ AcceptedTimes(query.rows) = {2, 5}
    /\ ParseInt(query.rows[1].tSec).val = 5
    /\ durationSec = 5
    /\ timeSec = 0


-----------------------------------------------------------------------------
(* What the render of UnifiedColors draws for a person with a given entry   *)

\* Math.pow(k, 3) with k = t / dur
easeInCubic(t, dur) == (Cube(t) * 1000) \div Cube(dur)

\* opacity of the drawn person
renderOpacity(anim) ==
    IF Has(anim, "enterTween") THEN anim.enterTween.opacity
    ELSE IF Has(anim, "exitTween") THEN anim.exitTween.opacity
    ELSE 1000

\* renderR of the drawn person
renderR(anim, person) ==
    IF Has(anim, "enterTween")
    THEN anim.enterTween.fromR
         + Scaled(anim.enterTween.toR - anim.enterTween.fromR,
                  easeOutCubic(anim.enterTween.t, ENTER_DUR), 1000)
    ELSE IF Has(anim, "exitTween")
    THEN anim.exitTween.fromR
         + Scaled(anim.exitTween.toR - anim.exitTween.fromR,
                  easeInCubic(anim.exitTween.t, EXIT_DUR), 1000)
    ELSE person.currentRadiusFactor

\* C39: the time of every tween lies between 0 and its duration and the
\* opacity drawn between 0 and 1; no entry has an enterTween and an
\* exitTween together; an active entry has neither, and its person is
\* drawn at its current radius
C39_TweensInRange ==
    \A id \in DOMAIN animations :
        LET anim == animations[id]
        IN  /\ Has(anim, "enterTween") =>
                   (anim.enterTween.t >= 0 /\ anim.enterTween.t <= ENTER_DUR)
            /\ Has(anim, "exitTween") =>
                   (anim.exitTween.t >= 0 /\ anim.exitTween.t <= EXIT_DUR)
            /\ renderOpacity(anim) >= 0 /\ renderOpacity(anim) <= 1000
            /\ ~(Has(anim, "enterTween") /\ Has(anim, "exitTween"))
            /\ anim.life = "active" =>
                   /\ ~Has(anim, "enterTween") /\ ~Has(anim, "exitTween")
                   /\ \A i \in 1..Len(peopleAtTime) :
                          peopleAtTime[i].id = id =>
                              renderR(anim, peopleAtTime[i])
                                  = peopleAtTime[i].currentRadiusFactor

\* an exiting entry is part of the way through
\* its exit, drawn between the radius it left at and the edge
C39_Witness ==
    /\ "P01" \in DOMAIN animations
    /\ animations["P01"].life = "exiting"
    /\ animations["P01"].exitTween.t > 0
    /\ renderOpacity(animations["P01"]) > 0
    /\ renderOpacity(animations["P01"]) < 1000
    /\ PersonOf(peopleAtTime, "P01") # <<>>
    /\ renderR(animations["P01"], PersonOf(peopleAtTime, "P01")[1]) < EDGE_R

====
